---- MODULE Spec2Model ----
EXTENDS Integers, Sequences, FiniteSets, TLC

(***************************************************************************)
(* Code generation backend of the Mun compiler (crates/mun_codegen,        *)
(* crates/mun_compiler): the compilation context with its struct layout    *)
(* caches, the dispatch table builder, the type table builder and the      *)
(* driver that rebuilds an assembly after a file's text was replaced.      *)
(***************************************************************************)

VARIABLES
    hir_db,        \* the HIR database: the file's current text, type checked
    struct_cache,  \* CodegenContext::struct_cache
    structs,       \* TypeManager::structs
    infos,         \* TypeManager::infos
    types,         \* the named struct types of the LLVM Context, by handle
    seen,          \* history: field list and handle at each struct's last struct_ty call
    last_call,     \* history: the last direct struct_ty call
    edits,         \* number of set_file_text calls so far
    since,         \* history: what set_file_text changed since the last build
    llvm_asserts,  \* whether the linked LLVM was built with its assertions on
    status,        \* "running", or how the host process ended
    group_ir,      \* the FileGroupIR of the last build
    prev_ir,       \* history: the FileGroupIR of the build before the last
    assembly,      \* the artifact written by the last write_assembly
    builds,        \* number of write_assembly calls so far
    builder,       \* a DispatchTableBuilder under construction
    trace,         \* history: the user callees met by the builder, in traversal order
    config         \* the Config that Driver::with_config was given

vars == <<hir_db, struct_cache, structs, infos, types, seen, last_call, edits,
          since, llvm_asserts, status, group_ir, prev_ir, assembly, builds, builder,
          trace, config>>

----------------------------------------------------------------------------
\* Bounds of the model

MaxEdits == 2
MaxStack == 4

----------------------------------------------------------------------------
\* The type-checked program (hir)

Structs == {"Args", "Bar"}
FundTys == {"i32", "f64"}
Kinds == {"gc", "value"}

NoFault == "none"

\* The empty map, with a range no comparison trips over
EmptyMap == [x \in {} |-> 0]

Range(f) == {f[x] : x \in DOMAIN f}

AlignUp(x, a) == ((x + a - 1) \div a) * a

Max(a, b) == IF a >= b THEN a ELSE b

\* The element of a singleton: Only({e(r) : r \in {v}}) is e of the value v
Only(S) == CHOOSE x \in S : TRUE

----------------------------------------------------------------------------
\* The compilation context threaded through the queries

Ctx(sc, st, inf, ty, sn, asserts) ==
    [struct_cache |-> sc, structs |-> st, infos |-> inf, types |-> ty,
     seen |-> sn, asserts |-> asserts, fault |-> NoFault]

Fault(c, why) == IF c.fault = NoFault THEN [c EXCEPT !.fault = why] ELSE c

\* inkwell Context::opaque_struct_type: a fresh named struct without a body
opaque_struct_type(c, name) ==
    [c EXCEPT !.types = Append(@, [name |-> name, opaque |-> TRUE, body |-> <<>>])]

NewHandle(c) == Len(c.types) + 1

\* StructType::set_body
set_body(c, h, field_types) ==
    [c EXCEPT !.types[h] = [name |-> @.name, opaque |-> FALSE, body |-> field_types]]

\* history only: the field list and the handle of the last struct_ty call for s
Note(c, which, s, fields, h) ==
    [c EXCEPT !.seen[which] = (s :> [fields |-> fields, ty |-> h]) @@ @]

----------------------------------------------------------------------------
\* CodegenContext::struct_ty

struct_ty_never_new(c, db, s) ==
    LET field_tys == db.structs[s].fields
        h == NewHandle(c)
        c1 == opaque_struct_type(c, s)
    IN IF s \in DOMAIN c.struct_cache
       THEN [c |-> Note(c, "ctx", s, field_tys, c.struct_cache[s].ty),
             ty |-> c.struct_cache[s].ty]
       ELSE [c |-> Note([c1 EXCEPT !.struct_cache =
                            (s :> [fields |-> field_tys, ty |-> h]) @@ @],
                        "ctx", s, field_tys, h),
             ty |-> h]

\* a cache that, on a changed field list, hands out again an older handle
\* of the struct's name, when there is one besides the entry's
struct_ty_reviving(c, db, s) ==
    LET field_tys == db.structs[s].fields
        h == NewHandle(c)
        c1 == opaque_struct_type(c, s)
        replaced == IF s \in DOMAIN c.struct_cache
                    THEN {old \in 1..Len(c.types) : /\ c.types[old].name = s
                                                    /\ old # c.struct_cache[s].ty}
                    ELSE {}
    IN IF s \in DOMAIN c.struct_cache
       THEN IF c.struct_cache[s].fields = field_tys
            THEN [c |-> Note(c, "ctx", s, field_tys, c.struct_cache[s].ty),
                  ty |-> c.struct_cache[s].ty]
            ELSE IF replaced # {}
            THEN Only({ [c |-> Note([c EXCEPT !.struct_cache[s] =
                                       [fields |-> field_tys, ty |-> old]],
                                    "ctx", s, field_tys, old),
                         ty |-> old]
                        : old \in {CHOOSE old \in replaced : \A o \in replaced : old <= o} })
            ELSE [c |-> Note([c1 EXCEPT !.struct_cache[s] =
                                [fields |-> field_tys, ty |-> h]],
                             "ctx", s, field_tys, h),
                  ty |-> h]
       ELSE [c |-> Note([c1 EXCEPT !.struct_cache =
                            (s :> [fields |-> field_tys, ty |-> h]) @@ @],
                        "ctx", s, field_tys, h),
             ty |-> h]

struct_ty(c, db, s) ==
    LET field_tys == db.structs[s].fields
        h == NewHandle(c)
        c1 == opaque_struct_type(c, s)
    IN IF s \in DOMAIN c.struct_cache
       THEN IF c.struct_cache[s].fields = field_tys
            THEN [c |-> Note(c, "ctx", s, field_tys, c.struct_cache[s].ty),
                  ty |-> c.struct_cache[s].ty]
            ELSE [c |-> Note([c1 EXCEPT !.struct_cache[s] =
                                [fields |-> field_tys, ty |-> h]],
                             "ctx", s, field_tys, h),
                  ty |-> h]
       ELSE [c |-> Note([c1 EXCEPT !.struct_cache =
                            (s :> [fields |-> field_tys, ty |-> h]) @@ @],
                        "ctx", s, field_tys, h),
             ty |-> h]

----------------------------------------------------------------------------
\* TypeManager::type_ir and TypeManager::struct_ty
\* A native type is <<"i32", 0>>, <<"f64", 0>>, <<"pp", h>> (pointer to pointer
\* to the struct h) or <<"st", h>> (the struct h itself).

RECURSIVE TypeManager_type_ir(_, _, _, _, _)
RECURSIVE TypeManager_struct_ty(_, _, _, _)
RECURSIVE FieldsIr(_, _, _, _, _, _)

\* type_ir with a struct arm that never looks at params.make_marshallable
TypeManager_type_ir_unmarshalled(c, db, ty, make_marshallable, depth) ==
    IF ty \in FundTys
    THEN [c |-> c, ty |-> <<ty, 0>>]
    ELSE Only({ [c |-> r.c,
                 ty |-> IF db.structs[ty].kind = "gc"
                        THEN <<"pp", r.ty>>
                        ELSE <<"st", r.ty>>]
                : r \in {TypeManager_struct_ty(c, db, ty, depth + 1)} })

\* The fundamental arms and the struct arm of type_ir; depth is the depth of
\* the native call stack.
TypeManager_type_ir(c, db, ty, make_marshallable, depth) ==
    IF ty \in FundTys
    THEN [c |-> c, ty |-> <<ty, 0>>]
    ELSE Only({ [c |-> r.c,
                 ty |-> IF db.structs[ty].kind = "gc" \/ make_marshallable
                        THEN <<"pp", r.ty>>
                        ELSE <<"st", r.ty>>]
                : r \in {TypeManager_struct_ty(c, db, ty, depth + 1)} })

\* tys.map(|ty| self.type_ir(ty, params))
FieldsIr(c, db, tys, make_marshallable, acc, depth) ==
    IF tys = <<>> \/ c.fault # NoFault
    THEN [c |-> c, tys |-> acc]
    ELSE Only({ FieldsIr(r.c, db, Tail(tys), make_marshallable, Append(acc, r.ty), depth)
                : r \in {TypeManager_type_ir(c, db, Head(tys), make_marshallable, depth)} })

\* match self.structs.entry(s), with the native field types at hand
structs_entry(c0, db, s, fields) ==
    LET h == NewHandle(c0)
        c1 == opaque_struct_type(c0, s)
        hir_tys == db.structs[s].fields
    IN IF c0.fault # NoFault
       THEN [c |-> c0, ty |-> 0]
       ELSE IF s \in DOMAIN c0.structs
       THEN IF c0.structs[s].fields = fields
            THEN [c |-> Note(c0, "tm", s, hir_tys, c0.structs[s].ty),
                  ty |-> c0.structs[s].ty]
            ELSE [c |-> Note([c1 EXCEPT !.structs[s] =
                                [fields |-> fields, ty |-> h]],
                             "tm", s, hir_tys, h),
                  ty |-> h]
       ELSE [c |-> Note([c1 EXCEPT !.structs =
                            (s :> [fields |-> fields, ty |-> h]) @@ @],
                        "tm", s, hir_tys, h),
             ty |-> h]

TypeManager_struct_ty(c, db, s, depth) ==
    IF depth > MaxStack
    THEN [c |-> Fault(c, "stack_overflow"), ty |-> 0]
    ELSE Only({ structs_entry(fr.c, db, s, fr.tys)
                : fr \in {FieldsIr(c, db, db.structs[s].fields, FALSE, <<>>, depth)} })

\* The FnDef arm of type_ir: the native function type of a signature
TypeManager_fn_type(c, db, f, make_marshallable) ==
    Only({ Only({ [c |-> rr.c, ty |-> [params |-> pr.tys, ret |-> rr.ty]]
                  : rr \in {IF f.ret = "empty" \/ pr.c.fault # NoFault
                            THEN [c |-> pr.c, ty |-> <<"void", 0>>]
                            ELSE TypeManager_type_ir(pr.c, db, f.ret, make_marshallable, 1)} })
           : pr \in {FieldsIr(c, db, f.params, make_marshallable, <<>>, 1)} })

----------------------------------------------------------------------------
\* The native layout engine (TargetData), sizes in bytes

RECURSIVE StructLayout(_, _)

\* The layout of a struct without a body is not defined: LLVM built with
\* assertions aborts, LLVM built without them answers as for no elements.
UnsizedLayout == [size |-> 0, align |-> 1, offsets |-> <<>>, sized |-> FALSE]

ElemLayout(tys, nat) ==
    IF nat[1] = "i32" THEN [size |-> 4, align |-> 4, sized |-> TRUE]
    ELSE IF nat[1] = "st"
    THEN Only({ [size |-> l.size, align |-> l.align, sized |-> l.sized]
                : l \in {StructLayout(tys, nat[2])} })
    ELSE [size |-> 8, align |-> 8, sized |-> TRUE]

RECURSIVE LayoutFrom(_, _, _, _)

\* the element i of body is laid out behind the elements before it
LayoutFrom(tys, body, i, acc) ==
    IF i > Len(body)
    THEN [acc EXCEPT !.size = AlignUp(@, acc.align)]
    ELSE Only({ Only({ LayoutFrom(tys, body, i + 1, next)
                       : next \in {[size |-> AlignUp(acc.size, e.align) + e.size,
                                    align |-> Max(acc.align, e.align),
                                    offsets |-> Append(acc.offsets,
                                                       AlignUp(acc.size, e.align)),
                                    sized |-> acc.sized /\ e.sized]} })
                : e \in {ElemLayout(tys, body[i])} })

StructLayout(tys, h) ==
    IF tys[h].opaque
    THEN UnsizedLayout
    ELSE LayoutFrom(tys, tys[h].body, 1,
                    [size |-> 0, align |-> 1, offsets |-> <<>>, sized |-> TRUE])

\* The layout of a struct whose body is n elements of the native type nat, as
\* LayoutFrom lays them out: each element right behind the one before it
FlatLayout(n, nat) ==
    Only({ [size |-> n * e.size, align |-> e.align,
            offsets |-> [i \in 1..n |-> (i - 1) * e.size], sized |-> TRUE]
           : e \in {ElemLayout(<<>>, nat)} })

\* A query of the layout engine on a struct whose layout is l
Queried(c, l) ==
    IF ~l.sized /\ c.asserts
    THEN Fault(c, "llvm_assert")
    ELSE c

----------------------------------------------------------------------------
\* TypeInfo (type_info.rs): the name decides identity and order

GuidOrder ==
    <<"core::i32", "*const TypeInfo", "core::f64", "Args",
      "*const *mut core::void", "Bar", "*mut core::void">>

GuidRank(name) == CHOOSE i \in 1..Len(GuidOrder) : GuidOrder[i] = name

new_fundamental(name, bits, align) ==
    [name |-> name, bits |-> bits, align |-> align, group |-> "fundamental"]

new_struct(s, bits, align) ==
    [name |-> s, bits |-> bits, align |-> align, group |-> "struct"]

\* TypeSize::from_ir_type of the struct r.ty and TypeInfo::new_struct
struct_type_info(r, ty) ==
    IF r.c.fault # NoFault
    THEN [c |-> r.c, info |-> new_struct(ty, 0, 1)]
    ELSE Only({ [c |-> Queried(r.c, l), info |-> new_struct(ty, 8 * l.size, l.align)]
                : l \in {StructLayout(r.c.types, r.ty)} })

\* TypeManager::type_info
TypeManager_type_info(c, db, ty) ==
    IF ty \in DOMAIN c.infos
    THEN [c |-> c, info |-> c.infos[ty]]
    ELSE IF ty \in FundTys
    THEN LET res == IF ty = "i32"
                    THEN new_fundamental("core::i32", 32, 4)
                    ELSE new_fundamental("core::f64", 64, 8)
         IN [c |-> [c EXCEPT !.infos = (ty :> res) @@ @], info |-> res]
    ELSE Only({ struct_type_info(r, ty) : r \in {TypeManager_struct_ty(c, db, ty, 1)} })

----------------------------------------------------------------------------
\* adt::gen_struct_decl

\* the opaque struct ty gets the native types of its fields as body
populate(fr, ty) ==
    [c |-> IF fr.c.fault # NoFault THEN fr.c ELSE set_body(fr.c, ty, fr.tys), ty |-> ty]

gen_struct_decl(c, db, s) ==
    Only({ IF r.c.types[r.ty].opaque
           THEN Only({ populate(fr, r.ty)
                       : fr \in {FieldsIr(r.c, db, db.structs[s].fields, FALSE, <<>>, 0)} })
           ELSE r
           : r \in {struct_ty(c, db, s)} })

----------------------------------------------------------------------------
\* Function bodies (hir::Expr) as far as the collectors look at them: a
\* literal, a call of a function, a call of a tuple struct and a record
\* literal; args are the child expressions that walk_child_exprs visits.

Lit(v) == [kind |-> "lit", name |-> v, args |-> <<>>]

Call(f, args) == [kind |-> "call", name |-> f, args |-> args]

CallStruct(s, args) == [kind |-> "call_struct", name |-> s, args |-> args]

RecordLit(s, args) == [kind |-> "record_lit", name |-> s, args |-> args]

\* hir::Function data: visibility, externness, signature and body
Fn(vis, is_extern, params, ret, body) ==
    [vis |-> vis, extern |-> is_extern, params |-> params, ret |-> ret, body |-> body]

IsStruct(db, name) == name \in DOMAIN db.structs

IsFn(db, name) == name \in DOMAIN db.fns

\* FnSig::marshallable: no struct of kind value crosses the signature
marshallable(db, f) ==
    \A ty \in Range(f.params) \cup ({f.ret} \ {"empty"}) :
        ty \in FundTys \/ db.structs[ty].kind = "gc"

----------------------------------------------------------------------------
\* intrinsics.rs: the intrinsics a file needs

PtrInfo(name) == [name |-> name, bits |-> 64, align |-> 8, group |-> "fundamental"]

\* FunctionPrototype of an intrinsic, no TypeInfo for a missing return type
Prototype(name, arg_types, ret_type) ==
    [name |-> name, arg_types |-> arg_types, ret_type |-> ret_type]

\* intrinsics::new, the allocation of a struct on the heap
intrinsics_new ==
    Prototype("new", <<PtrInfo("*const TypeInfo"), PtrInfo("*mut core::void")>>,
              <<PtrInfo("*const *mut core::void")>>)

\* intrinsics::drop, which no collector registers
intrinsics_drop == Prototype("drop", <<PtrInfo("*const *mut core::void")>>, <<>>)

IntrinsicIrType(p) ==
    [params |-> [i \in 1..Len(p.arg_types) |-> <<"ptr", 0>>],
     ret |-> IF p.ret_type = <<>> THEN <<"void", 0>> ELSE <<"ptr", 0>>]

NoIntrinsics == [map |-> {}, needs_alloc |-> FALSE]

collect_intrinsic(m, intrinsic) == [m EXCEPT !.map = @ \cup {intrinsic}]

RECURSIVE intrinsics_collect_expr(_, _)
RECURSIVE intrinsics_collect_exprs(_, _)

intrinsics_collect_expr(m, expr) ==
    Only({ intrinsics_collect_exprs(m1, expr.args)
           : m1 \in {IF expr.kind \in {"call_struct", "record_lit"}
                     THEN [collect_intrinsic(m, intrinsics_new) EXCEPT !.needs_alloc = TRUE]
                     ELSE m} })

intrinsics_collect_exprs(m, exprs) ==
    IF exprs = <<>> THEN m
    ELSE Only({ intrinsics_collect_exprs(m1, Tail(exprs))
                : m1 \in {intrinsics_collect_expr(m, Head(exprs))} })

collect_fn_body(m, body) == intrinsics_collect_expr(m, body)

collect_wrapper_body(m) ==
    [collect_intrinsic(m, intrinsics_new) EXCEPT !.needs_alloc = TRUE]

\* The order of a BTreeMap keyed by FunctionPrototype: derive(Ord) compares
\* the names first, and the names of two intrinsics differ
NameOrder == <<"drop", "new">>

NameRank(name) == CHOOSE i \in 1..Len(NameOrder) : NameOrder[i] = name

RECURSIVE ProtosBy(_, _)

ProtosBy(map, sign) ==
    IF map = {} THEN <<>>
    ELSE Only({ <<least>> \o ProtosBy(map \ {least}, sign)
                : least \in {CHOOSE p \in map :
                                \A q \in map :
                                    sign * NameRank(p.name) <= sign * NameRank(q.name)} })

iter_descending(map) == ProtosBy(map, -1)

\* BTreeMap::iter
iter(map) == ProtosBy(map, 1)

----------------------------------------------------------------------------
\* dispatch_table.rs: DispatchTableBuilder. A builder value b holds the
\* compilation context c and the table t under construction; slots count
\* from 0 as in the code.

\* a builder that never adds the dispatchTable global to the module
ensure_table_ref_never(t) == t

\* DispatchTableBuilder::ensure_table_ref
ensure_table_ref(t) == [t EXCEPT !.table_ref = TRUE]

Entry(prototype, hir, ir_type) == [prototype |-> prototype, hir |-> hir, ir_type |-> ir_type]

\* entries.push(..) at index entries.len() and prototype_to_idx.insert(..)
push_intrinsic(t, prototype) ==
    [t EXCEPT !.entries = Append(@, Entry(prototype, "None", IntrinsicIrType(prototype))),
              !.prototype_to_idx = (prototype :> Len(t.entries)) @@ @]

RECURSIVE PushIntrinsics(_, _)

\* the loop of DispatchTableBuilder::new over the intrinsics in map order
PushIntrinsics(t, protos) ==
    IF protos = <<>> THEN t
    ELSE Only({ PushIntrinsics(t1, Tail(protos)) : t1 \in {push_intrinsic(t, Head(protos))} })

EmptyTable(table_type) ==
    [function_to_idx |-> EmptyMap, prototype_to_idx |-> EmptyMap,
     entries |-> <<>>, table_ref |-> FALSE, table_type |-> table_type]

DispatchTableBuilder_new(c, intrinsics) ==
    [c |-> opaque_struct_type(c, "DispatchTable"),
     t |-> IF intrinsics # {}
           THEN PushIntrinsics(ensure_table_ref(EmptyTable(NewHandle(c))), iter(intrinsics))
           ELSE EmptyTable(NewHandle(c))]

RECURSIVE TypeInfos(_, _, _, _)

\* tys.map(|ty| db.type_info(ty))
TypeInfos(c, db, tys, acc) ==
    IF tys = <<>> \/ c.fault # NoFault THEN [c |-> c, infos |-> acc]
    ELSE Only({ TypeInfos(r.c, db, Tail(tys), Append(acc, r.info))
                : r \in {TypeManager_type_info(c, db, Head(tys))} })

\* the types of a signature: the parameters, then the return type if any
SigTys(f) == IF f.ret = "empty" THEN f.params ELSE Append(f.params, f.ret)

\* the entry of function is pushed at index entries.len() and both maps learn it
register(t, function, ir, sig, n) ==
    LET prototype == Prototype(function, SubSeq(sig.infos, 1, n),
                               SubSeq(sig.infos, n + 1, Len(sig.infos)))
        index == Len(t.entries)
    IN IF sig.c.fault # NoFault
       THEN [c |-> sig.c, t |-> t]
       ELSE [c |-> sig.c,
             t |-> [t EXCEPT !.entries = Append(@, Entry(prototype, function, ir.ty)),
                             !.prototype_to_idx = (prototype :> index) @@ @,
                             !.function_to_idx = (function :> index) @@ @]]

\* a collect_fn_def that does not ask function_to_idx before it registers
collect_fn_def_always(b, db, function) ==
    Only({ Only({ register(ensure_table_ref(b.t), function, ir, sig,
                           Len(db.fns[function].params))
                  : sig \in {TypeInfos(ir.c, db, SigTys(db.fns[function]), <<>>)} })
           : ir \in {TypeManager_fn_type(b.c, db, db.fns[function], FALSE)} })

collect_fn_def(b, db, function) ==
    IF function \in DOMAIN b.t.function_to_idx
    THEN [c |-> b.c, t |-> ensure_table_ref(b.t)]
    ELSE Only({ Only({ register(ensure_table_ref(b.t), function, ir, sig,
                                Len(db.fns[function].params))
                       : sig \in {TypeInfos(ir.c, db, SigTys(db.fns[function]), <<>>)} })
                : ir \in {TypeManager_fn_type(b.c, db, db.fns[function], FALSE)} })

RECURSIVE DispatchTableBuilder_collect_expr(_, _, _)
RECURSIVE DispatchTableBuilder_collect_exprs(_, _, _)

\* A call of a function registers the callee, then the children are walked
DispatchTableBuilder_collect_expr(b, db, expr) ==
    IF b.c.fault # NoFault THEN b
    ELSE Only({ DispatchTableBuilder_collect_exprs(b1, db, expr.args)
                : b1 \in {IF expr.kind = "call" THEN collect_fn_def(b, db, expr.name)
                          ELSE b} })

DispatchTableBuilder_collect_exprs(b, db, exprs) ==
    IF exprs = <<>> THEN b
    ELSE Only({ DispatchTableBuilder_collect_exprs(b1, db, Tail(exprs))
                : b1 \in {DispatchTableBuilder_collect_expr(b, db, Head(exprs))} })

collect_body(b, db, body) == DispatchTableBuilder_collect_expr(b, db, body)

\* function::gen_signature: the function is added to the module under its
\* name, or its name with _wrapper, with the native type of its signature
gen_signature(c, db, function, make_marshallable) ==
    Only({ [c |-> ir.c,
            fun |-> [name |-> IF make_marshallable THEN function \o "_wrapper" ELSE function,
                     wrapper |-> make_marshallable, ty |-> ir.ty]]
           : ir \in {TypeManager_fn_type(c, db, db.fns[function], make_marshallable)} })

\* function_type.const_null()
Null == <<"null", "">>

AddressOf_null(fun) == <<"null", "">>

\* fun.as_global_value().as_pointer_value()
AddressOf(fun) == <<"addr", fun.name>>

RECURSIVE Initializer(_, _, _, _, _)

\* the values of the table's initializer, slot by slot
Initializer(c, db, entries, i, acc) ==
    IF i > Len(entries) \/ c.fault # NoFault THEN [c |-> c, values |-> acc]
    ELSE IF entries[i].hir = "None" \/ db.fns[entries[i].hir].extern
    THEN Initializer(c, db, entries, i + 1, Append(acc, Null))
    ELSE Only({ Initializer(sig.c, db, entries, i + 1, Append(acc, AddressOf(sig.fun)))
                : sig \in {gen_signature(c, db, entries[i].hir, FALSE)} })

\* the body of the table's type: a pointer to each entry's function type
table_body(entries) == [i \in 1..Len(entries) |-> <<"fnptr", entries[i].ir_type>>]

\* what build hands on: the builder's maps and entries, and the initializer
built_table(t, init) ==
    [c |-> init.c,
     dispatch_table |->
         [function_to_idx |-> t.function_to_idx,
          prototype_to_idx |-> t.prototype_to_idx,
          table_ref |-> t.table_ref,
          table_type |-> IF t.table_ref THEN <<t.table_type>> ELSE <<>>,
          entries |-> [i \in 1..Len(t.entries) |->
                          [prototype |-> t.entries[i].prototype,
                           hir |-> t.entries[i].hir]],
          initializer |-> init.values]]

\* DispatchTableBuilder::build
DispatchTableBuilder_build(b, db) ==
    Only({ built_table(b.t, init)
           : init \in {IF b.t.table_ref
                       THEN Initializer(
                                set_body(b.c, b.t.table_type, table_body(b.t.entries)),
                                db, b.t.entries, 1, <<>>)
                       ELSE [c |-> set_body(b.c, b.t.table_type, table_body(b.t.entries)),
                             values |-> <<>>]} })

\* DispatchTable::contains
contains(dispatch_table, function) == function \in DOMAIN dispatch_table.function_to_idx

\* DispatchTable::ty: <<>> for None
DispatchTable_ty(dispatch_table) == dispatch_table.table_type

\* DispatchTable::global_value: whether the table has its global
global_value(dispatch_table) == dispatch_table.table_ref

----------------------------------------------------------------------------
\* abi_types.rs: the native types of the ABI, made anew for every group

AbiTypeNames ==
    <<"struct.MunTypeInfo", "struct.MunFunctionSignature", "struct.MunFunctionPrototype",
      "struct.MunFunctionDefinition", "struct.MunStructInfo", "struct.MunModuleInfo",
      "struct.MunDispatchTable", "struct.MunAssemblyInfo">>

\* every ABI type is made opaque and given its body, which is left out here
gen_abi_types(c) ==
    [c EXCEPT !.types = @ \o [i \in 1..Len(AbiTypeNames) |->
                                 [name |-> AbiTypeNames[i], opaque |-> FALSE, body |-> <<>>]]]

----------------------------------------------------------------------------
\* type_table.rs: TypeTableBuilder. A builder value tb holds the compilation
\* context c and the entries: the elements of the BTreeSet in the order of
\* their insertion. Two TypeInfos are equal, and ordered, by their guid, which
\* is the digest of their name.

insert_always(entries, type_info) == Append(entries, type_info)

\* BTreeSet::insert: an equal element that is present stays
insert(entries, type_info) ==
    IF \E i \in 1..Len(entries) : entries[i].name = type_info.name THEN entries
    ELSE Append(entries, type_info)

RECURSIVE collect_struct(_, _, _, _)
RECURSIVE collect_types(_, _, _, _)

collect_type(tb, db, type_info, depth) ==
    IF type_info.group = "struct"
    THEN collect_struct(tb, db, type_info.name, depth + 1)
    ELSE [tb EXCEPT !.entries = insert(@, type_info)]

\* for ty in tys { let ti = db.type_info(ty); self.collect_type(ti) }
collect_types(tb, db, tys, depth) ==
    IF tys = <<>> \/ tb.c.fault # NoFault THEN tb
    ELSE Only({ IF r.c.fault # NoFault THEN [tb EXCEPT !.c = r.c]
                ELSE Only({ collect_types(tb1, db, Tail(tys), depth)
                            : tb1 \in {collect_type([tb EXCEPT !.c = r.c], db, r.info,
                                                    depth)} })
                : r \in {TypeManager_type_info(tb.c, db, Head(tys))} })

collect_struct_shallow(tb, db, hir_struct, depth) ==
    Only({ IF r.c.fault # NoFault THEN [tb EXCEPT !.c = r.c]
           ELSE [c |-> r.c, entries |-> insert(tb.entries, r.info)]
           : r \in {TypeManager_type_info(tb.c, db, hir_struct)} })

\* TypeTableBuilder::collect_struct
collect_struct(tb, db, hir_struct, depth) ==
    IF depth > MaxStack THEN [tb EXCEPT !.c = Fault(@, "stack_overflow")]
    ELSE Only({ IF r.c.fault # NoFault THEN [tb EXCEPT !.c = r.c]
                ELSE collect_types([c |-> r.c, entries |-> insert(tb.entries, r.info)],
                                   db, db.structs[hir_struct].fields, depth)
                : r \in {TypeManager_type_info(tb.c, db, hir_struct)} })

\* TypeTableBuilder::collect_fn; the walk of the body collects nothing
collect_fn(tb, db, dispatch_table, hir_fn) ==
    IF db.fns[hir_fn].vis # "private" \/ contains(dispatch_table, hir_fn)
    THEN collect_types(tb, db, SigTys(db.fns[hir_fn]), 0)
    ELSE tb

RECURSIVE CollectInfos(_, _, _)

\* collect_type for the TypeInfos of a prototype
CollectInfos(tb, db, type_infos) ==
    IF type_infos = <<>> THEN tb
    ELSE Only({ CollectInfos(tb1, db, Tail(type_infos))
                : tb1 \in {collect_type(tb, db, Head(type_infos), 0)} })

RECURSIVE TypeTableBuilder_new_from(_, _, _)

TypeTableBuilder_new_from(tb, db, protos) ==
    IF protos = <<>> THEN tb
    ELSE Only({ TypeTableBuilder_new_from(tb1, db, Tail(protos))
                : tb1 \in {CollectInfos(tb, db, Head(protos).arg_types
                                                \o Head(protos).ret_type)} })

\* TypeTableBuilder::new
TypeTableBuilder_new(c, db, intrinsics) ==
    TypeTableBuilder_new_from([c |-> c, entries |-> <<>>], db, iter(intrinsics))

\* the sequence without its element i
Without(seq, i) == SubSeq(seq, 1, i - 1) \o SubSeq(seq, i + 1, Len(seq))

\* an iteration over the entries in the order of their insertion
into_iter_as_inserted(entries) == entries

\* BTreeSet::into_iter: the entries in the order of their guids
RECURSIVE into_iter(_)

into_iter(entries) ==
    IF entries = <<>> THEN <<>>
    ELSE Only({ <<entries[least]>> \o into_iter(Without(entries, least))
                : least \in {CHOOSE i \in 1..Len(entries) :
                                \A j \in 1..Len(entries) :
                                    \/ GuidRank(entries[i].name) < GuidRank(entries[j].name)
                                    \/ /\ entries[i].name = entries[j].name
                                       /\ i <= j} })

\* TargetData::offset_of_element for the first n elements of a struct whose
\* layout is layout: None, and a panic of unwrap, beyond the last element of
\* the body; not defined for a struct that has no size
offsets_of_elements(c, layout, n) ==
    IF ~layout.sized
    THEN [c |-> Queried(c, layout), offsets |-> [i \in 1..n |-> 0]]
    ELSE IF n > Len(layout.offsets)
    THEN [c |-> Fault(c, "panic"), offsets |-> <<>>]
    ELSE [c |-> c, offsets |-> SubSeq(layout.offsets, 1, n)]

\* the values of an array of context.i16_type() hold 16 bits
U16Range == 65536

\* code_gen::gen_u16_array: u16_type.const_int(i, false) keeps the low 16 bits
\* of the u64 i
gen_u16_array(integers) == [i \in 1..Len(integers) |-> integers[i] % U16Range]

\* the field_offsets of gen_struct_info for the n fields of a struct whose
\* native type has the layout
gen_field_offsets(c, layout, n) ==
    Only({ [c |-> off.c, offsets |-> gen_u16_array(off.offsets)]
           : off \in {offsets_of_elements(c, layout, n)} })

RECURSIVE gen_type_info(_, _, _, _)
RECURSIVE gen_field_types(_, _, _, _)

\* a loop that does not note the descriptor it generated
remember_nothing(g, name) == g

\* type_info_to_ir.insert(type_info, ir_value)
remember(g, name) == [g EXCEPT !.type_info_to_ir = @ \cup {name}]

\* The generation state g holds the context c, the names in type_info_to_ir,
\* the globals made so far and what gen_struct_info used for each struct.
\* The loop of gen_struct_info over the fields' TypeInfos:
gen_field_types(g, db, tys, depth) ==
    IF tys = <<>> \/ g.c.fault # NoFault THEN g
    ELSE Only({ Only({ gen_field_types(g2, db, Tail(tys), depth)
                       : g2 \in {IF r.c.fault # NoFault
                                    \/ r.info.name \in g.type_info_to_ir
                                 THEN [g EXCEPT !.c = r.c]
                                 ELSE remember(gen_type_info([g EXCEPT !.c = r.c], db,
                                                             r.info, depth + 1),
                                               r.info.name)} })
                : r \in {TypeManager_type_info(g.c, db, Head(tys))} })

\* the struct's field offsets are read from the layout of struct_ir
struct_info(g1, hir_struct, struct_ir, off, n) ==
    IF g1.c.fault # NoFault THEN g1
    ELSE [g1 EXCEPT !.c = off.c,
                    !.struct_info = (hir_struct :> [struct_ir |-> struct_ir,
                                                    field_offsets |-> off.offsets,
                                                    num_fields |-> n]) @@ @]

gen_struct_info(g, db, hir_struct, depth) ==
    Only({ Only({ Only({ struct_info(g1, hir_struct, r.ty, off,
                                     Len(db.structs[hir_struct].fields))
                         : off \in {gen_field_offsets(
                                        g1.c, StructLayout(g1.c.types, r.ty),
                                        Len(db.structs[hir_struct].fields))} })
                  : g1 \in {gen_field_types([g EXCEPT !.c = r.c], db,
                                            db.structs[hir_struct].fields, depth)} })
           : r \in {struct_ty(g.c, db, hir_struct)} })

\* gen_global(module, type_info_ir, name)
gen_global(g1, name) ==
    IF g1.c.fault # NoFault THEN g1 ELSE [g1 EXCEPT !.globals = Append(@, name)]

gen_type_info(g, db, type_info, depth) ==
    IF depth > MaxStack THEN [g EXCEPT !.c = Fault(@, "stack_overflow")]
    ELSE Only({ gen_global(g1, type_info.name)
                : g1 \in {IF type_info.group = "struct"
                          THEN gen_struct_info(g, db, type_info.name, depth)
                          ELSE g} })

\* the pointer to the descriptor that gen_type_info made for the TypeInfo
PointerTo(type_info) == <<"global", type_info.name>>

RECURSIVE TypeTableBuilder_build_from(_, _, _, _)

\* the loop of TypeTableBuilder::build over the sorted entries
TypeTableBuilder_build_from(g, db, entries, table) ==
    IF entries = <<>> \/ g.c.fault # NoFault THEN [g |-> g, table |-> table]
    ELSE Only({ TypeTableBuilder_build_from(
                    g1, db, Tail(entries),
                    [entries |-> Append(table.entries, Head(entries)),
                     type_info_ptrs |-> Append(table.type_info_ptrs,
                                               PointerTo(Head(entries))),
                     type_info_to_index |->
                         (Head(entries).name :> Len(table.entries))
                             @@ table.type_info_to_index])
                : g1 \in {IF Head(entries).name \in g.type_info_to_ir THEN g
                          ELSE remember(gen_type_info(g, db, Head(entries), 1),
                                        Head(entries).name)} })

\* module.add_global(table_type, None, TypeTable::NAME) and its initializer
TypeTableGlobal(type_info_ptrs) ==
    [name |-> "global_type_table", initializer |-> type_info_ptrs]

built_type_table_with_global(r) ==
    [c |-> r.g.c,
     type_table |->
         [type_info_to_index |-> r.table.type_info_to_index,
          entries |-> r.table.entries,
          table_globals |-> <<TypeTableGlobal(r.table.type_info_ptrs)>>,
          globals |-> r.g.globals,
          struct_info |-> r.g.struct_info]]

\* what build hands on; the module gets the table's global unless
\* type_info_ptrs is empty
built_type_table(r) ==
    [c |-> r.g.c,
     type_table |->
         [type_info_to_index |-> r.table.type_info_to_index,
          entries |-> r.table.entries,
          table_globals |-> IF r.table.type_info_ptrs # <<>>
                            THEN <<TypeTableGlobal(r.table.type_info_ptrs)>>
                            ELSE <<>>,
          globals |-> r.g.globals,
          struct_info |-> r.g.struct_info]]

\* TypeTableBuilder::build
TypeTableBuilder_build(tb, db) ==
    Only({ built_type_table(r)
           : r \in {TypeTableBuilder_build_from(
                        [c |-> tb.c, type_info_to_ir |-> {}, globals |-> <<>>,
                         struct_info |-> EmptyMap],
                        db, into_iter(tb.entries),
                        [entries |-> <<>>, type_info_ptrs |-> <<>>,
                         type_info_to_index |-> EmptyMap])} })

\* TypeTable::is_empty
is_empty(type_table) == type_table.entries = <<>>

\* TypeTable::num_types
num_types(type_table) == Len(type_table.entries)

----------------------------------------------------------------------------
\* file_group.rs: the IR shared by the files of a group

\* the functions whose bodies the second loop of ir_query hands to collect_body
Exposed(db, def) == IsFn(db, def) /\ db.fns[def].vis # "private" /\ ~db.fns[def].extern

NonExtern(db, def) == IsFn(db, def) /\ ~db.fns[def].extern

\* whether file::ir_query and file_group::ir_query see a wrapper for def
NeedsWrapper(db, def) ==
    NonExtern(db, def) /\ db.fns[def].vis # "private" /\ ~marshallable(db, db.fns[def])

\* One definition in the first loop of ir_query: w holds the context c and
\* the intrinsics m
collect_def(w, db, def) ==
    IF IsStruct(db, def)
    THEN [w EXCEPT !.c = gen_struct_decl(w.c, db, def).c]
    ELSE IF ~NonExtern(db, def) THEN w
    ELSE IF NeedsWrapper(db, def)
    THEN [w EXCEPT !.m = collect_wrapper_body(collect_fn_body(@, db.fns[def].body))]
    ELSE [w EXCEPT !.m = collect_fn_body(@, db.fns[def].body)]

RECURSIVE CollectIntrinsicsAndStructs(_, _, _)

CollectIntrinsicsAndStructs(w, db, defs) ==
    IF defs = <<>> \/ w.c.fault # NoFault THEN w
    ELSE Only({ CollectIntrinsicsAndStructs(w1, db, Tail(defs))
                : w1 \in {collect_def(w, db, Head(defs))} })

RECURSIVE CollectEach(_, _, _)

\* collect_body for the exposed functions among defs, one after the other
CollectEach(b, db, defs) ==
    IF defs = <<>> \/ b.c.fault # NoFault THEN b
    ELSE Only({ CollectEach(b1, db, Tail(defs))
                : b1 \in {IF Exposed(db, Head(defs))
                          THEN collect_body(b, db, db.fns[Head(defs)].body)
                          ELSE b} })

RECURSIVE Reversed(_)

Reversed(seq) == IF seq = <<>> THEN <<>> ELSE Append(Reversed(Tail(seq)), Head(seq))

CollectBodies_unordered(b, db, defs) ==
    CollectEach(b, db, IF Len(b.c.types) % 2 = 1 THEN Reversed(defs) ELSE defs)

\* the second loop of ir_query, over the definitions in their order
CollectBodies(b, db, defs) == CollectEach(b, db, defs)

RECURSIVE CollectUsedTypes(_, _, _, _)

\* the third loop of ir_query
CollectUsedTypes(tb, db, dispatch_table, defs) ==
    IF defs = <<>> \/ tb.c.fault # NoFault THEN tb
    ELSE Only({ CollectUsedTypes(tb1, db, dispatch_table, Tail(defs))
                : tb1 \in {IF IsStruct(db, Head(defs))
                           THEN collect_struct(tb, db, Head(defs), 1)
                           ELSE collect_fn(tb, db, dispatch_table, Head(defs))} })

NoGroupIR == [built |-> FALSE]

\* the FileGroupIR, unless the process ended on the way
FileGroupIR(w, dt, tt) ==
    IF tt.c.fault # NoFault THEN [c |-> tt.c, ir |-> NoGroupIR]
    ELSE [c |-> tt.c,
          ir |-> [built |-> TRUE,
                  dispatch_table |-> dt.dispatch_table,
                  type_table |-> tt.type_table,
                  allocator_handle_type |-> w.m.needs_alloc,
                  intrinsics |-> w.m.map]]

\* ir_query from the built dispatch table on
group_types(w, dt, db) ==
    Only({ FileGroupIR(w, dt, tt)
           : tt \in {TypeTableBuilder_build(
                        CollectUsedTypes(
                            TypeTableBuilder_new(gen_abi_types(dt.c), db, w.m.map),
                            db, dt.dispatch_table, db.defs),
                        db)} })

\* file_group::ir_query
group_ir_query(c, db) ==
    Only({ Only({ group_types(w, dt, db)
                  : dt \in {DispatchTableBuilder_build(
                               CollectBodies(DispatchTableBuilder_new(w.c, w.m.map),
                                             db, db.defs),
                               db)} })
           : w \in {CollectIntrinsicsAndStructs([c |-> c, m |-> NoIntrinsics],
                                                db, db.defs)} })

----------------------------------------------------------------------------
\* file.rs: the IR of one file. The code of a body is the tree of what the
\* body lowers to: a constant, a call through a slot of the dispatch table,
\* an allocation through the slot of the intrinsic new.

Code(op, slot, value, args) == [op |-> op, slot |-> slot, value |-> value, args |-> args]

NoCode == [ok |-> FALSE, code |-> Code("none", 0, "", <<>>)]

\* DispatchTable::gen_function_lookup and gen_intrinsic_lookup panic with
\* "unknown function" for a function that has no slot
lower(dispatch_table, expr, args) ==
    IF ~args.ok THEN NoCode
    ELSE IF expr.kind = "lit"
    THEN [ok |-> TRUE, code |-> Code("const", 0, expr.name, <<>>)]
    ELSE IF expr.kind = "call"
    THEN IF contains(dispatch_table, expr.name) /\ dispatch_table.table_ref
         THEN [ok |-> TRUE,
               code |-> Code("call", dispatch_table.function_to_idx[expr.name],
                             expr.name, args.codes)]
         ELSE NoCode
    ELSE IF intrinsics_new \in DOMAIN dispatch_table.prototype_to_idx
    THEN [ok |-> TRUE,
          code |-> Code("new", dispatch_table.prototype_to_idx[intrinsics_new],
                        expr.name, args.codes)]
    ELSE NoCode

RECURSIVE gen_expr(_, _)
RECURSIVE gen_exprs(_, _, _)

gen_expr(dispatch_table, expr) ==
    Only({ lower(dispatch_table, expr, args)
           : args \in {gen_exprs(dispatch_table, expr.args, <<>>)} })

gen_exprs(dispatch_table, exprs, acc) ==
    IF exprs = <<>> THEN [ok |-> TRUE, codes |-> acc]
    ELSE Only({ IF r.ok THEN gen_exprs(dispatch_table, Tail(exprs), Append(acc, r.code))
                ELSE [ok |-> FALSE, codes |-> acc]
                : r \in {gen_expr(dispatch_table, Head(exprs))} })

\* the body of the first text,  pub fn main() -> i32 { 5 },  whatever db holds
gen_body_of_first_text(dispatch_table, db, function) ==
    [ok |-> TRUE, code |-> Code("const", 0, "5", <<>>)]

\* function::gen_body
gen_body(dispatch_table, db, function) == gen_expr(dispatch_table, db.fns[function].body)

\* module.add_function with the signature that gen_signature made; log is the
\* history of what file::ir_query generated, in the order it generated it
add_function(w, sig) ==
    [w EXCEPT !.c = sig.c,
              !.module = Append(@, sig.fun.name),
              !.log = Append(@, <<"signature", sig.fun.name>>)]

\* the wrapper test of file::ir_query, without the test of the visibility
FileNeedsWrapper_private_too(db, def) ==
    def \in DOMAIN db.fns /\ ~db.fns[def].extern /\ ~marshallable(db, db.fns[def])

\* the wrapper test of file::ir_query
FileNeedsWrapper(db, def) ==
    NonExtern(db, def) /\ db.fns[def].vis # "private" /\ ~marshallable(db, db.fns[def])

\* One definition in the loop of file::ir_query that generates the signatures:
\* w holds the context c, the module and the maps functions and
\* wrapper_functions
gen_signatures(w, db, def) ==
    IF ~NonExtern(db, def) THEN w
    ELSE Only({ IF FileNeedsWrapper(db, def)
                THEN [add_function(w1, gen_signature(w1.c, db, def, TRUE))
                         EXCEPT !.wrapper_functions = Append(@, def)]
                ELSE w1
                : w1 \in {[add_function(w, gen_signature(w.c, db, def, FALSE))
                              EXCEPT !.functions = Append(@, def)]} })

RECURSIVE GenSignatures(_, _, _)

GenSignatures(w, db, defs) ==
    IF defs = <<>> \/ w.c.fault # NoFault THEN w
    ELSE Only({ GenSignatures(w1, db, Tail(defs)) : w1 \in {gen_signatures(w, db, Head(defs))} })

\* the globals of the group that the file's module declares
ExternalGlobals(ir) ==
    [alloc_handle |-> ir.allocator_handle_type,
     dispatch_table |-> ir.dispatch_table.table_type # <<>>,
     type_table |-> ~is_empty(ir.type_table)]

\* function::gen_wrapper_body: the wrapper marshals the parameters and the
\* result around the function
gen_wrapper_body(dispatch_table, db, function) ==
    [ok |-> TRUE, code |-> Code("marshal", 0, function, <<>>)]

\* The orders in which a HashMap may iterate over the keys fs
IterOrders(fs) ==
    {order \in [1..Len(fs) -> Range(fs)] : Range(order) = Range(fs)}

RECURSIVE GenBodies_registering(_, _, _)

\* a loop over functions that gives the function whose body it generates a
\* slot of the dispatch table when it has none
GenBodies_registering(w, db, order) ==
    IF order = <<>> \/ w.c.fault # NoFault THEN w
    ELSE Only({ Only({ IF r.ok
                       THEN GenBodies_registering(
                                [w1 EXCEPT !.bodies = (Head(order) :> r.code) @@ @,
                                           !.log = Append(@, <<"body", Head(order)>>)],
                                db, Tail(order))
                       ELSE [w1 EXCEPT !.c = Fault(@, "panic")]
                       : r \in {gen_body(w1.group_ir.dispatch_table, db, Head(order))} })
                : w1 \in {IF contains(w.group_ir.dispatch_table, Head(order)) THEN w
                          ELSE [w EXCEPT !.group_ir.dispatch_table.entries =
                                             Append(@, [prototype |-> Head(order),
                                                        hir |-> Head(order)]),
                                         !.group_ir.dispatch_table.function_to_idx =
                                             (Head(order) :> Len(w.group_ir.dispatch_table.entries)) @@ @]} })

RECURSIVE GenBodies(_, _, _)

\* the loop of file::ir_query over functions, in the order of the iteration,
\* with the tables of the group's IR that w holds; a body that cannot be
\* generated panics
GenBodies(w, db, order) ==
    IF order = <<>> \/ w.c.fault # NoFault THEN w
    ELSE Only({ IF r.ok
                THEN GenBodies([w EXCEPT !.bodies = (Head(order) :> r.code) @@ @,
                                         !.log = Append(@, <<"body", Head(order)>>)],
                               db, Tail(order))
                ELSE [w EXCEPT !.c = Fault(@, "panic")]
                : r \in {gen_body(w.group_ir.dispatch_table, db, Head(order))} })

RECURSIVE GenWrapperBodies(_, _, _)

\* the loop of file::ir_query over wrapper_functions, a BTreeMap
GenWrapperBodies(w, db, fs) ==
    IF fs = <<>> \/ w.c.fault # NoFault THEN w
    ELSE Only({ IF r.ok
                THEN GenWrapperBodies(
                         [w EXCEPT !.wrapper_bodies = (Head(fs) :> r.code) @@ @,
                                   !.log = Append(@, <<"wrapper_body", Head(fs) \o "_wrapper">>)],
                         db, Tail(fs))
                ELSE [w EXCEPT !.c = Fault(@, "panic")]
                : r \in {gen_wrapper_body(w.group_ir.dispatch_table, db, Head(fs))} })

\* the FileIR, unless a body could not be generated, with the group's IR
\* that the query holds
FileIR(w, db) ==
    IF w.c.fault # NoFault
    THEN [c |-> w.c, group_ir |-> w.group_ir, file |-> [built |-> FALSE], log |-> w.log]
    ELSE [c |-> w.c, group_ir |-> w.group_ir, log |-> w.log,
          file |-> [built |-> TRUE,
                    module |-> w.module,
                    functions |-> w.bodies,
                    wrapper_functions |-> Range(w.wrapper_functions),
                    wrappers |-> w.wrapper_bodies,
                    external_globals |-> ExternalGlobals(w.group_ir),
                    api |-> {f \in DOMAIN w.bodies : db.fns[f].vis # "private"}]]

\* the tables of a group's IR
TablesOf(ir) ==
    IF ir.built
    THEN [dispatch_table |-> ir.dispatch_table, type_table |-> ir.type_table]
    ELSE [dispatch_table |-> <<>>, type_table |-> <<>>]

\* file::ir_query with the module it created and the group's IR it asked for:
\* nothing is generated yet, the history holds the tables as they were built
NewModule(g) ==
    [c |-> g.c, group_ir |-> g.ir, module |-> <<>>, functions |-> <<>>,
     wrapper_functions |-> <<>>, bodies |-> EmptyMap, wrapper_bodies |-> EmptyMap,
     log |-> <<<<"group_ir", TablesOf(g.ir)>>>>]

\* one loop that generates the body of each function right after its signature
RECURSIVE GenEach(_, _, _)

GenEach(w, db, defs) ==
    IF defs = <<>> \/ w.c.fault # NoFault THEN w
    ELSE GenEach(GenBodies(gen_signatures(w, db, Head(defs)), db,
                           IF NonExtern(db, Head(defs)) THEN <<Head(defs)>> ELSE <<>>),
                 db, Tail(defs))

file_signatures_with_bodies(g, db) == GenEach(NewModule(g), db, db.defs)

\* file::ir_query from the group's IR to the signatures
file_signatures(g, db) == GenSignatures(NewModule(g), db, db.defs)

\* file::ir_query declares the globals of the group in the file's module
declare_external_globals(w) ==
    IF w.c.fault # NoFault THEN w
    ELSE [w EXCEPT !.log = Append(@, <<"external_globals", ExternalGlobals(w.group_ir)>>)]

\* a query that declares the globals of the group behind the last body
file_bodies_before_globals(w, db, order) ==
    Only({ FileIR(declare_external_globals(w2), db)
           : w2 \in {GenWrapperBodies(GenBodies(w, db, order), db, w.wrapper_functions)} })

\* file::ir_query from the signatures on
file_bodies(w, db, order) ==
    Only({ FileIR(w2, db)
           : w2 \in {GenWrapperBodies(GenBodies(declare_external_globals(w), db, order),
                                      db, w.wrapper_functions)} })

----------------------------------------------------------------------------
\* Inputs

\* The field lists a struct of the file may have: Args may hold a Bar
FieldLists(s) ==
    IF s = "Args"
    THEN {<<"i32", "Bar">>, <<"i32", "f64">>}
    ELSE {<<"f64">>, <<"i32">>}

StructData(k, fa, fb) ==
    [s \in Structs |-> [kind |-> IF s = "Bar" THEN k ELSE "gc",
                        fields |-> IF s = "Args" THEN fa ELSE fb]]

CacheFiles ==
    { [defs |-> <<"Args", "Bar">>, structs |-> StructData(k, fa, fb),
       fns |-> EmptyMap]
      : k \in Kinds, fa \in {<<"i32", "Bar">>}, fb \in {<<"f64">>} }

\* The texts that differ from db in the field list of one struct
Defined(db) == DOMAIN db.structs

FieldEdits(db) ==
    UNION { { [db EXCEPT !.structs[s].fields = fl] : fl \in FieldLists(s) }
            : s \in Defined(db) } \ {db}

NoCall == [fn |-> "none", s |-> "none", ret |-> 0, had |-> FALSE, prev |-> 0,
           unchanged |-> FALSE, base |-> 0]

NoBuilder == [made |-> FALSE]

\* history: no build was started
NoBuild == [attempted |-> FALSE, built |-> FALSE]

\* What the last write_assembly returned: the error or the path of the shared
\* object, the step that failed, and what became of the temporary object file
NoResult == [error |-> "none", path |-> <<>>, failed |-> "none", temp_file |-> "none"]

\* inkwell::OptimizationLevel
OptimizationLevels == {"None", "Less", "Default", "Aggressive"}

\* The Configs a driver may be given, as far as the optimization level goes,
\* and the one of the inputs that do not name a level
Configs == {[optimization_lvl |-> l] : l \in OptimizationLevels}

DefaultConfig == [optimization_lvl |-> "Default"]

\* CodegenContext::new
CodegenContext_new == [optimization_lvl |-> "None"]

\* CodegenContext::set_optimization_lvl
set_optimization_lvl(db, optimization_lvl) ==
    [db EXCEPT !.optimization_lvl = optimization_lvl]

\* Driver::with_config: the driver's CodegenContext. The call of
\* set_optimization_lvl with the Config's level is commented out.
with_config(cfg) == CodegenContext_new

InitContext ==
    /\ struct_cache = EmptyMap
    /\ structs = EmptyMap
    /\ infos = EmptyMap
    /\ types = <<>>
    /\ seen = [ctx |-> EmptyMap, tm |-> EmptyMap]
    /\ last_call = NoCall
    /\ edits = 0
    /\ since = "nothing"
    /\ status = "running"
    /\ group_ir = NoBuild
    /\ prev_ir = NoBuild
    /\ assembly = [written |-> FALSE, last |-> NoResult]
    /\ builds = 0
    /\ builder = NoBuilder
    /\ trace = <<>>

Now == Ctx(struct_cache, structs, infos, types, seen, llvm_asserts)

Commit(c) ==
    /\ struct_cache' = c.struct_cache
    /\ structs' = c.structs
    /\ infos' = c.infos
    /\ types' = c.types
    /\ seen' = c.seen
    /\ status' = IF c.fault = NoFault THEN "running" ELSE c.fault

\* Driver::set_file_text: the file's text is replaced by one of texts;
\* kind names what the new text changes
set_file_text(texts, kind) ==
    /\ status = "running"
    /\ edits < MaxEdits
    /\ \E text \in texts :
        /\ hir_db' = text
        /\ since' = IF since = "nothing" THEN kind ELSE "many"
    /\ edits' = edits + 1
    /\ last_call' = NoCall
    /\ UNCHANGED <<struct_cache, structs, infos, types, seen, llvm_asserts, config, status,
                   group_ir, prev_ir, assembly, builds, builder, trace>>

----------------------------------------------------------------------------
\* The struct layout caches under direct calls

CallRecord(which, s, r) ==
    [fn |-> which, s |-> s, ret |-> r.ty,
     had |-> s \in DOMAIN seen[which],
     prev |-> IF s \in DOMAIN seen[which] THEN seen[which][s].ty ELSE 0,
     unchanged |-> /\ s \in DOMAIN seen[which]
                   /\ seen[which][s].fields = hir_db.structs[s].fields,
     base |-> Len(types)]

\* A caller asks the compilation context for the layout of s
Call_struct_ty(s) ==
    /\ status = "running"
    /\ \E r \in {struct_ty(Now, hir_db, s)} :
          /\ Commit(r.c)
          /\ last_call' = CallRecord("ctx", s, r)
    /\ UNCHANGED <<hir_db, edits, since, llvm_asserts, config, group_ir, prev_ir, assembly,
                   builds, builder, trace>>

Call_TypeManager_struct_ty(s) ==
    /\ status = "running"
    /\ \E r \in {TypeManager_struct_ty(Now, hir_db, s, 1)} :
          /\ Commit(r.c)
          /\ last_call' = CallRecord("tm", s, r)
    /\ UNCHANGED <<hir_db, edits, since, llvm_asserts, config, group_ir, prev_ir, assembly,
                   builds, builder, trace>>

InitCache ==
    /\ hir_db \in CacheFiles
    /\ llvm_asserts = FALSE
    /\ config = DefaultConfig
    /\ InitContext

NextCache ==
    \/ set_file_text(FieldEdits(hir_db), "struct")
    \/ \E s \in Structs : Call_struct_ty(s)
    \/ \E s \in Structs : Call_TypeManager_struct_ty(s)

SpecCache == InitCache /\ [][NextCache]_vars

\* The cache entry of s in the cache that the last call consulted
EntryOf(which, s) == IF which = "ctx" THEN struct_cache[s] ELSE structs[s]

\* The native field types of s as TypeManager::struct_ty computes them now
NativeFields(s) == FieldsIr(Now, hir_db, hir_db.structs[s].fields, FALSE, <<>>, 1).tys

\* C1: two struct_ty calls for a struct s between which the field-type list
\* of s did not change return the identical native handle, and the second
\* call allocates no new handle for s.
C1_SameHandleWhenUnchanged ==
    (last_call.had /\ last_call.unchanged)
        => (last_call.ret = last_call.prev /\ last_call.ret <= last_call.base)

\* C2: a struct_ty call for a struct s whose current field-type list differs
\* from the one of its cache entry allocates a new opaque handle named s,
\* replaces the entry by (current field list, new handle) and returns the new
\* handle, which differs from the handle cached before.
C2_NewHandleWhenChanged ==
    (last_call.had /\ ~last_call.unchanged)
        => /\ last_call.ret > last_call.base
           /\ last_call.ret # last_call.prev
           /\ types[last_call.ret].name = last_call.s
           /\ types[last_call.ret].opaque
           /\ EntryOf(last_call.fn, last_call.s).ty = last_call.ret
           /\ EntryOf(last_call.fn, last_call.s).fields =
                  IF last_call.fn = "ctx"
                  THEN hir_db.structs[last_call.s].fields
                  ELSE NativeFields(last_call.s)

C2_Witness ==
    /\ last_call.fn = "ctx"
    /\ last_call.s = "Bar"
    /\ last_call.had
    /\ ~last_call.unchanged
    /\ hir_db.structs["Bar"].fields = <<"i32">>
    /\ last_call.ret # last_call.prev

----------------------------------------------------------------------------
\* The driver: files, edits and builds

MaxBuilds == 3

\* pub fn main() -> i32 { 5 }
MainFile ==
    [defs |-> <<"main">>, structs |-> EmptyMap,
     fns |-> ("main" :> Fn("pub", FALSE, <<>>, "i32", Lit("5")))]

\* struct(gc) Args { n: i32, foo: Bar }  struct(k) Bar { m: f64 }
\* pub fn args() -> Args { Args { n: 3, foo: Bar { m: 1.0 } } }
StructFile(k) ==
    [defs |-> <<"Args", "Bar", "args">>,
     structs |-> StructData(k, <<"i32", "Bar">>, <<"f64">>),
     fns |-> ("args" :> Fn("pub", FALSE, <<>>, "Args",
                           RecordLit("Args", <<Lit("3"), RecordLit("Bar", <<Lit("1")>>)>>)))]

\* struct(gc) Args { n: i32, foo: Bar }  struct(k) Bar { m: f64 }
\* pub fn take(b: Bar) -> i32 { ext(5) }
\* extern fn ext(a: i32) -> i32;
\* pub fn make() -> Bar { Bar { m: 1.0 } }
\* pub fn both() -> i32 { take(make()) }
TypesFile(k) ==
    [defs |-> <<"Args", "Bar", "take", "ext", "make", "both">>,
     structs |-> StructData(k, <<"i32", "Bar">>, <<"f64">>),
     fns |-> ("take" :> Fn("pub", FALSE, <<"Bar">>, "i32", Call("ext", <<Lit("5")>>)))
             @@ ("ext" :> Fn("private", TRUE, <<"i32">>, "i32", Lit("0")))
             @@ ("make" :> Fn("pub", FALSE, <<>>, "Bar", RecordLit("Bar", <<Lit("1")>>)))
             @@ ("both" :> Fn("pub", FALSE, <<>>, "i32",
                              Call("take", <<Call("make", <<>>)>>)))]

\* pub fn main() -> i32 { twice(twice(ext(1))) }
\* pub fn twice(a: i32) -> i32 { helper(2) }
\* vis fn helper(a: i32) -> i32 { leaf(3) }
\* fn leaf(a: i32) -> i32 { 4 }
\* extern fn ext(a: i32) -> i32;
CallFile(vis) ==
    [defs |-> <<"main", "twice", "helper", "leaf", "ext">>,
     structs |-> EmptyMap,
     fns |-> ("main" :> Fn("pub", FALSE, <<>>, "i32",
                           Call("twice", <<Call("twice", <<Call("ext", <<Lit("1")>>)>>)>>)))
             @@ ("twice" :> Fn("pub", FALSE, <<"i32">>, "i32", Call("helper", <<Lit("2")>>)))
             @@ ("helper" :> Fn(vis, FALSE, <<"i32">>, "i32", Call("leaf", <<Lit("3")>>)))
             @@ ("leaf" :> Fn("private", FALSE, <<"i32">>, "i32", Lit("4")))
             @@ ("ext" :> Fn("private", TRUE, <<"i32">>, "i32", Lit("0")))]

\* fn hidden() -> i32 { 4 }
HiddenFile ==
    [defs |-> <<"hidden">>, structs |-> EmptyMap,
     fns |-> ("hidden" :> Fn("private", FALSE, <<>>, "i32", Lit("4")))]

\* struct(gc) Node { next: Node }  fn hidden() -> i32 { 4 }
NodeFile ==
    [defs |-> <<"Node", "hidden">>,
     structs |-> ("Node" :> [kind |-> "gc", fields |-> <<"Node">>]),
     fns |-> HiddenFile.fns]

\* the target that Target::from_triple knows, and one it does not know
HostTarget == "x86_64-unknown-linux-gnu"

Targets == {HostTarget, "x86_64-unknown-none"}

\* the texts of the inputs, compiled for the host
Files ==
    { [target |-> HostTarget] @@ f
      : f \in {MainFile, HiddenFile, NodeFile} \cup {StructFile(k) : k \in Kinds}
               \cup {TypesFile(k) : k \in Kinds}
               \cup {CallFile(vis) : vis \in {"pub", "private"}} }

\* The texts that differ from db in the type of Bar's field m
BarEdits(db) ==
    IF "Bar" \in DOMAIN db.structs
    THEN {[db EXCEPT !.structs["Bar"].fields = fl] : fl \in FieldLists("Bar")} \ {db}
    ELSE {}

\* The texts that differ from db in the literal that main returns
LitEdits(db) ==
    IF "main" \in DOMAIN db.fns /\ db.fns["main"].body.kind = "lit"
    THEN {[db EXCEPT !.fns["main"].body = Lit(v)] : v \in {"5", "10"}} \ {db}
    ELSE {}

\* The bodies a new function may have: a literal, a call of a function of
\* the file that takes an i32, a record literal of Bar
NewBodies(db) ==
    {Lit("7")}
        \cup {Call(g, <<Lit("1")>>) : g \in {g \in DOMAIN db.fns : db.fns[g].params = <<"i32">>}}
        \cup {RecordLit("Bar", <<Lit("1")>>) : s \in {"Bar"} \cap DOMAIN db.structs}

\* The texts that add to db, in front or at the end, a function that no call
\* site calls
AddFnEdits(db) ==
    IF "added" \in DOMAIN db.fns THEN {}
    ELSE {[db EXCEPT !.defs = IF front THEN <<"added">> \o @ ELSE Append(@, "added"),
                     !.fns = ("added" :> Fn(vis, FALSE, <<>>,
                                            IF body.kind = "record_lit" THEN "Bar" ELSE "i32",
                                            body)) @@ @]
            : vis \in {"pub", "private"}, front \in BOOLEAN, body \in NewBodies(db)}

\* ModuleBuilder::new: the module of the assembly and the target machine,
\* unless Target::from_triple does not know the target
ModuleBuilder_new_for_any_target(db) == [ok |-> TRUE, error |-> "none"]

ModuleBuilder_new(db) ==
    IF db.target = HostTarget
    THEN [ok |-> TRUE, error |-> "none"]
    ELSE [ok |-> FALSE, error |-> "UnknownTargetTriple"]

\* The steps of ObjectFile::new and ObjectFile::into_shared_object that may
\* fail, in the order they are taken
ObjectSteps == <<"write_to_memory_buffer", "NamedTempFile::new", "write">>

LinkSteps == <<"add_object", "build_shared_object", "finalize">>

Outcomes == {"ok"} \cup Range(ObjectSteps) \cup Range(LinkSteps)

\* the temporary object file is kept when the NamedTempFile goes out of scope
keep_obj_file(o) == o

\* Drop of NamedTempFile: the file is removed when obj_file goes out of scope
drop_obj_file(o) ==
    [o EXCEPT !.temp_file = IF @ = "exists" THEN "removed" ELSE @]

\* ObjectFile::new when the step fails, or none if fails is "ok" or a later
\* step: ? returns the error, and obj_file is dropped if it was created
ObjectFile_new(fails) ==
    IF fails = "write_to_memory_buffer"
    THEN [error |-> "CodeGenerationError", path |-> <<>>, failed |-> fails,
          temp_file |-> "none"]
    ELSE IF fails = "NamedTempFile::new"
    THEN [error |-> "CouldNotCreateObjectFile", path |-> <<>>, failed |-> fails,
          temp_file |-> "none"]
    ELSE IF fails = "write"
    THEN drop_obj_file([error |-> "CouldNotCreateObjectFile", path |-> <<>>,
                        failed |-> fails, temp_file |-> "exists"])
    ELSE [error |-> "none", path |-> <<>>, failed |-> "none", temp_file |-> "exists"]

\* ObjectFile::into_shared_object: self is consumed, so obj_file is dropped
\* when the function returns, with the path or with the error of a step
into_shared_object(obj, fails) ==
    IF fails \in Range(LinkSteps)
    THEN drop_obj_file([obj EXCEPT !.error = "LinkerError", !.failed = fails])
    ELSE drop_obj_file([obj EXCEPT !.path = <<"main.munlib">>])

\* the object file and the shared object of write_assembly
link(fails) ==
    Only({ IF obj.error # "none" THEN obj ELSE into_shared_object(obj, fails)
           : obj \in {ObjectFile_new(fails)} })

\* the order in which the functions were inserted into the map
InsertionOrder(fs) == {fs}

\* Driver::write_assembly: ModuleBuilder::new and build, that is file::ir_query
\* with the group's IR, the link of both modules and the shared object. The
\* bodies are generated in one of the orders in which the map of the functions
\* may iterate; the IR is the same for all of them, so one order stands for
\* all unless any_order is set, and then trace keeps the history of the order
\* taken. The step that fails, if one does, is one of outcomes.
Build(any_order, outcomes) ==
    /\ status = "running"
    /\ builds < MaxBuilds
    /\ \E mb \in {ModuleBuilder_new(hir_db)} :
          IF ~mb.ok
          THEN /\ assembly' = [assembly EXCEPT !.last = [NoResult EXCEPT !.error = mb.error]]
               /\ UNCHANGED <<struct_cache, structs, infos, types, seen, status,
                              group_ir, prev_ir, trace, since>>
          ELSE \E g \in {group_ir_query(Now, hir_db)} :
               \E w \in {file_signatures(g, hir_db)} :
               \E order \in IF any_order THEN IterOrders(w.functions)
                                          ELSE InsertionOrder(w.functions) :
               \E r \in {file_bodies(w, hir_db, order)} :
               \E fails \in outcomes :
               \E result \in {link(fails)} :
                  /\ Commit(r.c)
                  /\ group_ir' = [attempted |-> TRUE, built |-> r.group_ir.built,
                                  ir |-> r.group_ir, since |-> since, db |-> hir_db]
                  /\ prev_ir' = group_ir
                  /\ assembly' = IF ~r.file.built THEN assembly
                                 ELSE IF result.error # "none"
                                 THEN [assembly EXCEPT !.last = result]
                                 ELSE [written |-> TRUE, file |-> r.file,
                                       build |-> builds + 1, last |-> result,
                                       fn_pass_manager |->
                                           with_config(config).optimization_lvl,
                                       optimize_module |->
                                           with_config(config).optimization_lvl]
                  /\ trace' = IF any_order THEN r.log ELSE trace
                  /\ since' = "nothing"
    /\ builds' = builds + 1
    /\ UNCHANGED <<hir_db, last_call, edits, llvm_asserts, config, builder>>

\* no step of the object file and of the linker fails
NoFailure == {"ok"}

write_assembly == Build(FALSE, NoFailure)

Init ==
    /\ hir_db \in Files
    /\ llvm_asserts \in BOOLEAN
    /\ config = DefaultConfig
    /\ InitContext

Next ==
    \/ set_file_text(BarEdits(hir_db), "struct")
    \/ set_file_text(LitEdits(hir_db), "lit")
    \/ set_file_text(AddFnEdits(hir_db), "add_fn")
    \/ write_assembly

Spec == Init /\ [][Next]_vars

-----------------------------------------------------------------------------
\* The group's IR of the last build and of the build before it

DT == group_ir.ir.dispatch_table

TT == group_ir.ir.type_table

\* no text was set since the last write_assembly
JustBuilt == group_ir.attempted /\ since = "nothing"

\* C3: when a struct of the file changed between two builds and the first
\* build produced the group's IR, the second build ends without a fault and
\* every struct's native type in the type table is not opaque and has as
\* body the native types of the struct's current fields.
C3_RebuildAfterStructChange ==
    (JustBuilt /\ group_ir.since = "struct" /\ prev_ir.built)
        => /\ status = "running"
           /\ group_ir.built
           /\ \A s \in DOMAIN TT.struct_info :
                 /\ ~types[TT.struct_info[s].struct_ir].opaque
                 /\ types[TT.struct_info[s].struct_ir].body = NativeFields(s)

\* C4: after each write_assembly of a file whose main returns a literal,
\* also after set_file_text replaced the literal, the assembly is the one
\* of that build and its main returns the literal of the current text.
C4_AssemblyFromNewText ==
    (JustBuilt /\ "main" \in DOMAIN hir_db.fns /\ hir_db.fns["main"].body.kind = "lit")
        => /\ assembly.written
           /\ assembly.build = builds
           /\ "main" \in DOMAIN assembly.file.functions
           /\ assembly.file.functions["main"]
                  = Code("const", 0, hir_db.fns["main"].body.name, <<>>)

C4_Witness ==
    /\ JustBuilt
    /\ group_ir.since = "lit"
    /\ prev_ir.built
    /\ hir_db.fns["main"].body = Lit("10")
    /\ assembly.build = builds
    /\ assembly.file.functions["main"].value = "10"

\* what a build leaves in the two tables
Tables(ir) ==
    [entries |-> ir.dispatch_table.entries,
     initializer |-> ir.dispatch_table.initializer,
     function_to_idx |-> ir.dispatch_table.function_to_idx,
     prototype_to_idx |-> ir.dispatch_table.prototype_to_idx,
     type_entries |-> ir.type_table.entries,
     type_info_to_index |-> ir.type_table.type_info_to_index]

C6_AddedFunctionKeepsSlots ==
    (group_ir.built /\ prev_ir.built /\ group_ir.since = "add_fn")
        => \A i \in 1..Len(prev_ir.ir.dispatch_table.entries) :
              /\ i <= Len(DT.entries)
              /\ DT.entries[i] = prev_ir.ir.dispatch_table.entries[i]

RECURSIVE Callees(_)

\* the functions that the call expressions of expr call
Callees(expr) ==
    (IF expr.kind = "call" THEN {expr.name} ELSE {})
        \cup UNION {Callees(expr.args[i]) : i \in 1..Len(expr.args)}

\* the slots of the dispatch table whose entry is the function
SlotsOf(dispatch_table, function) ==
    {i \in 1..Len(dispatch_table.entries) : dispatch_table.entries[i].hir = function}

\* C8: in the group's IR of a build, for every function of the file that is
\* not extern, private or not, every function that a call expression of its
\* body calls has a slot in the dispatch table, and exactly one.
C8_EveryCalleeRegistered ==
    group_ir.built
        => \A f \in DOMAIN group_ir.db.fns :
              ~group_ir.db.fns[f].extern
                  => \A g \in Callees(group_ir.db.fns[f].body) :
                        /\ contains(DT, g)
                        /\ Cardinality(SlotsOf(DT, g)) = 1

\* C9: in the initializer of the dispatch table's global, the slot of an
\* intrinsic and the slot of an extern function hold the null pointer, and
\* the slot of any other function holds the address of the native function
\* generated for that function's signature.
C9_InitializerValues ==
    (group_ir.built /\ DT.table_ref)
        => /\ Len(DT.initializer) = Len(DT.entries)
           /\ \A i \in 1..Len(DT.entries) :
                 DT.initializer[i] =
                     IF DT.entries[i].hir = "None" THEN <<"null", "">>
                     ELSE IF group_ir.db.fns[DT.entries[i].hir].extern THEN <<"null", "">>
                     ELSE <<"addr", DT.entries[i].hir>>

C9_Witness ==
    /\ group_ir.built /\ DT.table_ref
    /\ \E i, j, k \in 1..Len(DT.entries) :
          /\ DT.entries[i].hir = "None" /\ DT.initializer[i] = <<"null", "">>
          /\ DT.entries[j].hir = "ext" /\ DT.initializer[j] = <<"null", "">>
          /\ DT.entries[k].hir = "take" /\ DT.initializer[k] = <<"addr", "take">>

\* C10: the type table of a build holds no two TypeInfos with the same guid,
\* however often the type was collected, and the index of each TypeInfo is
\* its position in the table.
C10_TypeInfoOnce ==
    group_ir.built
        => /\ \A i, j \in 1..Len(TT.entries) :
                 TT.entries[i].name = TT.entries[j].name => i = j
           /\ \A i \in 1..Len(TT.entries) :
                 TT.type_info_to_index[TT.entries[i].name] = i - 1

\* Bar is collected as the type of a parameter, as a return type and as the
\* type of a field of Args
C10_Witness ==
    /\ group_ir.built
    /\ "take" \in DOMAIN group_ir.db.fns
    /\ \E i, j \in 1..Len(TT.entries) :
          /\ TT.entries[i].name = "Bar"
          /\ TT.entries[j].name = "core::i32"
    /\ Cardinality({i \in 1..Len(TT.entries) : TT.entries[i].name = "Bar"}) = 1

-----------------------------------------------------------------------------
\* The dispatch table builder under direct calls: new, then collect_body for
\* bodies of the file in any order, then build

MaxCalls == 5

RECURSIVE CallSeq(_)
RECURSIVE CallSeqs(_)

\* the callees of the call expressions of expr in the order of the walk of
\* collect_expr: the expression, then its children from the first to the last
CallSeq(expr) ==
    (IF expr.kind = "call" THEN <<expr.name>> ELSE <<>>) \o CallSeqs(expr.args)

CallSeqs(exprs) ==
    IF exprs = <<>> THEN <<>> ELSE CallSeq(Head(exprs)) \o CallSeqs(Tail(exprs))

\* history: the slot that each function had when it was first seen with one
FirstSlots(first, function_to_idx) ==
    [g \in DOMAIN function_to_idx |->
        IF g \in DOMAIN first THEN first[g] ELSE function_to_idx[g]]

New_DispatchTableBuilder ==
    /\ status = "running"
    /\ ~builder.made
    /\ \E map \in SUBSET {intrinsics_new, intrinsics_drop} :
       \E r \in {DispatchTableBuilder_new(Now, map)} :
          /\ Commit(r.c)
          /\ builder' = [made |-> TRUE, built |-> FALSE, t |-> r.t,
                         intrinsics |-> map, first |-> EmptyMap]
    /\ UNCHANGED <<hir_db, last_call, edits, since, llvm_asserts, config, group_ir, prev_ir,
                   assembly, builds, trace>>

Call_collect_body ==
    /\ status = "running"
    /\ builder.made /\ ~builder.built
    /\ \E f \in {f \in DOMAIN hir_db.fns : ~hir_db.fns[f].extern} :
          /\ Len(trace) + Len(CallSeq(hir_db.fns[f].body)) <= MaxCalls
          /\ \E b \in {collect_body([c |-> Now, t |-> builder.t], hir_db,
                                    hir_db.fns[f].body)} :
                /\ Commit(b.c)
                /\ builder' = [builder EXCEPT
                                  !.t = b.t,
                                  !.first = FirstSlots(@, b.t.function_to_idx)]
          /\ trace' = trace \o CallSeq(hir_db.fns[f].body)
    /\ UNCHANGED <<hir_db, last_call, edits, since, llvm_asserts, config, group_ir, prev_ir,
                   assembly, builds>>

Call_build ==
    /\ status = "running"
    /\ builder.made /\ ~builder.built
    /\ \E r \in {DispatchTableBuilder_build([c |-> Now, t |-> builder.t], hir_db)} :
          /\ Commit(r.c)
          /\ builder' = [made |-> TRUE, built |-> TRUE,
                         t |-> r.dispatch_table,
                         intrinsics |-> builder.intrinsics,
                         first |-> FirstSlots(builder.first,
                                              r.dispatch_table.function_to_idx)]
    /\ UNCHANGED <<hir_db, last_call, edits, since, llvm_asserts, config, group_ir, prev_ir,
                   assembly, builds, trace>>

InitDT ==
    /\ hir_db \in Files
    /\ llvm_asserts = FALSE
    /\ config = DefaultConfig
    /\ InitContext

NextDT ==
    \/ New_DispatchTableBuilder
    \/ Call_collect_body
    \/ Call_build

SpecDT == InitDT /\ [][NextDT]_vars

RECURSIVE Dedup(_, _)

\* the elements of seq that are not in acc, each at its first occurrence
Dedup(seq, acc) ==
    IF seq = <<>> THEN acc
    ELSE Dedup(Tail(seq),
               IF \E i \in 1..Len(acc) : acc[i] = Head(seq) THEN acc
               ELSE Append(acc, Head(seq)))

\* C7: the intrinsics hold the slots 0..k-1 in the ascending order of their
\* prototypes; the user functions follow in the order in which collect_fn_def
\* first saw them; both maps give each entry its position in entries; and
\* the slot that a function once had is the slot that it has, while bodies
\* are collected and in the built table.
C7_SlotOrder ==
    builder.made
        => LET e == builder.t.entries
               k == Cardinality(builder.intrinsics)
           IN /\ Len(e) >= k
              /\ \A i \in 1..Len(e) : (i <= k) <=> (e[i].hir = "None")
              /\ {e[i].prototype : i \in 1..k} = builder.intrinsics
              /\ \A i, j \in 1..k :
                    i < j => NameRank(e[i].prototype.name) < NameRank(e[j].prototype.name)
              /\ [i \in 1..(Len(e) - k) |-> e[k + i].hir] = Dedup(trace, <<>>)
              /\ \A i \in 1..Len(e) :
                    /\ builder.t.prototype_to_idx[e[i].prototype] = i - 1
                    /\ e[i].hir # "None" => builder.t.function_to_idx[e[i].hir] = i - 1
              /\ \A g \in DOMAIN builder.first :
                    /\ g \in DOMAIN builder.t.function_to_idx
                    /\ builder.t.function_to_idx[g] = builder.first[g]

\* both intrinsics, three user functions of which one was seen twice, built
C7_Witness ==
    /\ builder.made /\ builder.built
    /\ Cardinality(builder.intrinsics) = 2
    /\ Len(builder.t.entries) = 5
    /\ Len(trace) > 3
    /\ builder.t.entries[1].prototype.name = "drop"
    /\ builder.t.entries[3].hir = "twice"

-----------------------------------------------------------------------------
\* The contents of the type table

\* the name of the TypeInfo of a type of the program
InfoName(ty) ==
    IF ty = "i32" THEN "core::i32" ELSE IF ty = "f64" THEN "core::f64" ELSE ty

RECURSIVE FieldClosure(_, _)

\* the types tys and the types of the fields of their structs, transitively
FieldClosure(db, tys) ==
    LET more == tys \cup UNION {Range(db.structs[s].fields)
                                : s \in tys \cap DOMAIN db.structs}
    IN IF more = tys THEN tys ELSE FieldClosure(db, more)

\* the functions whose signature the type table has to describe
DescribedFns(db, dispatch_table) ==
    {f \in DOMAIN db.fns : db.fns[f].vis # "private" \/ contains(dispatch_table, f)}

\* the names of the TypeInfos that the type table of the build has to hold
RequiredInfos(db, ir) ==
    {InfoName(ty) : ty \in FieldClosure(
                      db, DOMAIN db.structs
                          \cup UNION {Range(SigTys(db.fns[f]))
                                      : f \in DescribedFns(db, ir.dispatch_table)})}
        \cup UNION {{p.arg_types[i].name : i \in 1..Len(p.arg_types)}
                    \cup {p.ret_type[i].name : i \in 1..Len(p.ret_type)}
                    : p \in ir.intrinsics}

\* C11: the type table of a build holds the TypeInfo of every parameter and
\* return type of every function that is not private or has a slot in the
\* dispatch table, of the argument and return types of every intrinsic, of
\* every struct of the file and of the types of their fields, transitively.
C11_TypeTableComplete ==
    group_ir.built
        => RequiredInfos(group_ir.db, group_ir.ir)
               \subseteq {TT.entries[i].name : i \in 1..Len(TT.entries)}

\* structs, a field of struct type, a struct parameter and an intrinsic
C11_Witness ==
    /\ group_ir.built
    /\ {"Args", "Bar", "core::f64", "core::i32", "*const TypeInfo"}
           \subseteq RequiredInfos(group_ir.db, group_ir.ir)
    /\ RequiredInfos(group_ir.db, group_ir.ir)
           \subseteq {TT.entries[i].name : i \in 1..Len(TT.entries)}
    /\ contains(DT, "ext")

\* C12: a build whose type table has no entry adds no global_type_table to
\* the group's module, and the file's module declares no type table; a build
\* whose type table has entries adds exactly one global_type_table, whose
\* initializer holds for each entry, in order, the pointer to its descriptor.
C12_TypeTableGlobal ==
    group_ir.built
        => /\ TT.entries = <<>>
                => /\ TT.table_globals = <<>>
                   /\ (assembly.written /\ assembly.build = builds)
                          => ~assembly.file.external_globals.type_table
           /\ TT.entries # <<>>
                => /\ Len(TT.table_globals) = 1
                   /\ TT.table_globals[1].name = "global_type_table"
                   /\ Len(TT.table_globals[1].initializer) = Len(TT.entries)
                   /\ \A i \in 1..Len(TT.entries) :
                         /\ TT.table_globals[1].initializer[i]
                                = <<"global", TT.entries[i].name>>
                         /\ \E j \in 1..Len(TT.globals) :
                               TT.globals[j] = TT.entries[i].name

\* a build of the file that exposes nothing, then a build after a function
\* was added
C12_Witness ==
    /\ group_ir.built /\ prev_ir.built
    /\ prev_ir.ir.type_table.entries = <<>>
    /\ prev_ir.ir.type_table.table_globals = <<>>
    /\ Len(TT.table_globals) = 1
    /\ assembly.written /\ assembly.build = builds
    /\ assembly.file.external_globals.type_table

-----------------------------------------------------------------------------
\* The functions of the module of a file

\* how often x occurs in seq
Count(seq, x) == Cardinality({i \in 1..Len(seq) : seq[i] = x})

\* the module of the last build, if the build ended; Text is the text it saw
Module == assembly.file.module

Text == group_ir.db

\* f takes or returns a struct of kind value by value
CrossesByValue(db, f) ==
    \E ty \in Range(db.fns[f].params) \cup {db.fns[f].ret} :
        ty \in DOMAIN db.structs /\ db.structs[ty].kind = "value"

\* C13: the module of a generated file holds the function f_wrapper once for
\* every function f of the text that is not extern, not private and takes or
\* returns a struct of kind value by value, and holds no f_wrapper for any
\* other function f: not for an extern function, not for a private function,
\* not for a function whose signature has fundamental types only.
C13_WrapperExactlyWhen ==
    JustBuilt /\ assembly.written /\ assembly.build = builds
        => \A f \in DOMAIN Text.fns :
              Count(Module, f \o "_wrapper")
                  = IF ~Text.fns[f].extern /\ Text.fns[f].vis # "private"
                       /\ CrossesByValue(Text, f)
                    THEN 1 ELSE 0

\* a file was generated with a wrapper for take and for make, and none for
\* both, for the extern ext and for the private added, which returns a Bar
C13_Witness ==
    /\ JustBuilt /\ assembly.written /\ assembly.build = builds
    /\ {"take_wrapper", "make_wrapper", "both", "added"} \subseteq Range(Module)
    /\ Text.fns["added"].vis = "private" /\ CrossesByValue(Text, "added")
    /\ Range(Module) \cap {"both_wrapper", "ext_wrapper", "added_wrapper", "ext"} = {}

-----------------------------------------------------------------------------
\* The order of the steps of file::ir_query. In SpecFile the bodies of a file
\* are generated in any order a HashMap may iterate, and trace holds the
\* history of the last query: the group's IR, then every signature, body and
\* wrapper body, in the order they were made.

Call_file_ir_query == Build(TRUE, NoFailure)

NextFile ==
    \/ set_file_text(BarEdits(hir_db), "struct")
    \/ set_file_text(LitEdits(hir_db), "lit")
    \/ Call_file_ir_query

SpecFile == Init /\ [][NextFile]_vars

\* the places of the history with an event of one of the kinds
Events(kinds) == {i \in 1..Len(trace) : trace[i][1] \in kinds}

\* the names of the events of a kind
Generated(kind) == {trace[i][2] : i \in Events({kind})}

\* the native functions that the module of the text needs
SignaturesOf(db) ==
    {f \in DOMAIN db.fns : ~db.fns[f].extern}
        \cup {f \o "_wrapper" : f \in {f \in DOMAIN db.fns :
                 ~db.fns[f].extern /\ db.fns[f].vis # "private" /\ CrossesByValue(db, f)}}

\* C14: in the history of a file's IR generation no signature is created
\* after a body or a wrapper body, and no function body is generated after a
\* wrapper body; when the first body is generated the signature of every
\* non-extern function of the file and of every wrapper exists, and when the
\* first wrapper body is generated every function has its body.
C14_SignaturesThenBodiesThenWrappers ==
    /\ \A i \in Events({"body", "wrapper_body"}) : \A j \in Events({"signature"}) : j < i
    /\ \A i \in Events({"wrapper_body"}) : \A j \in Events({"body"}) : j < i
    /\ Events({"body", "wrapper_body"}) # {} => Generated("signature") = SignaturesOf(Text)
    /\ Events({"wrapper_body"}) # {}
          => Generated("body") = {f \in DOMAIN Text.fns : ~Text.fns[f].extern}

\* a file with three functions and two wrappers was generated, and the body
\* of the last function of the text was generated first
C14_Witness ==
    /\ assembly.written /\ assembly.build = builds
    /\ Cardinality(Events({"signature"})) = 5
    /\ Cardinality(Events({"body"})) = 3
    /\ Generated("wrapper_body") = {"take_wrapper", "make_wrapper"}
    /\ \E i \in Events({"body"}) : trace[i][2] = "both" /\ \A j \in Events({"body"}) : i <= j

\* C15: in the history of a file's IR generation the group's IR is obtained
\* once, built to its end, before the first body or wrapper body, and the
\* dispatch table and the type table that the query holds after the last body
\* are the tables as they were built: no entry gained, lost or moved.
C15_TablesBuiltBeforeBodies ==
    Events({"body", "wrapper_body"}) # {}
        => /\ group_ir.built
           /\ Events({"group_ir"}) = {1}
           /\ trace[1][2].dispatch_table # <<>>
           /\ trace[1][2] = TablesOf(group_ir.ir)

\* the four bodies of a file were generated, one after the other, against
\* the dispatch table of four slots that the group's IR was built with
C15_Witness ==
    /\ assembly.written /\ assembly.build = builds
    /\ Cardinality(Events({"body"})) = 4
    /\ Len(DT.entries) = 4
    /\ trace[1][2].dispatch_table.entries = DT.entries

-----------------------------------------------------------------------------
\* Structs that hold themselves

\* the structs of kind gc of the text with a field of their own type
SelfReferences(db) ==
    {s \in DOMAIN db.structs : db.structs[s].kind = "gc" /\ s \in Range(db.structs[s].fields)}

\* C16: a build of a text with a struct of kind gc that has a field of its own
\* type ends: the native types of the struct are resolved, its types are
\* collected, its descriptors are generated and the group's IR is built,
\* without the recursion running out of stack.
C16_SelfReferenceTerminates ==
    (group_ir.attempted /\ SelfReferences(group_ir.db) # {})
        => (status # "stack_overflow" /\ group_ir.built)

-----------------------------------------------------------------------------
\* The field offsets of a struct's descriptor. In SpecOffsets gen_struct_info
\* computes the field_offsets of structs of many sizes: a struct of n fields of
\* one fundamental type or of n references to structs of kind gc.

\* the most fields a struct has
MaxFields == 8200

\* the numbers of fields: few, and as many as make the struct larger than
\* 65535 bytes
FieldCounts == {n \in 1..MaxFields : n <= 48 \/ n > MaxFields - 12}

\* the native types of the fields: i32, f64, pointer to a struct of kind gc
FieldNatives == {<<"i32", 0>>, <<"f64", 0>>, <<"pp", 0>>}

\* gen_struct_info computes the field offsets of a struct of n fields
Call_gen_struct_info ==
    /\ status = "running"
    /\ \E n \in FieldCounts, nat \in FieldNatives :
       \E layout \in {FlatLayout(n, nat)} :
       \E r \in {gen_field_offsets(Now, layout, n)} :
          /\ Commit(r.c)
          /\ last_call' = [fn |-> "gen_struct_info", num_fields |-> n, nat |-> nat,
                           layout |-> layout, field_offsets |-> r.offsets]
    /\ UNCHANGED <<hir_db, edits, since, llvm_asserts, config, group_ir, prev_ir, assembly,
                   builds, builder, trace>>

InitOffsets ==
    /\ hir_db \in {f \in Files : f.defs = <<"main">>}
    /\ llvm_asserts \in BOOLEAN
    /\ config = DefaultConfig
    /\ InitContext

NextOffsets == Call_gen_struct_info

SpecOffsets == InitOffsets /\ [][NextOffsets]_vars

\* C17: for a struct of any size and every field index i, the element i of
\* the field_offsets that gen_struct_info emits is the byte offset that the
\* layout engine computes for the field i of the struct's native type.
C17_FieldOffsetsAreLayoutOffsets ==
    last_call.fn = "gen_struct_info"
        => /\ Len(last_call.field_offsets) = last_call.num_fields
           /\ \A i \in 1..last_call.num_fields :
                 last_call.field_offsets[i] = last_call.layout.offsets[i]

-----------------------------------------------------------------------------
\* The errors of write_assembly. In SpecDriver the driver is configured for a
\* target that the native backend knows or does not know, and a step of the
\* object file or of the linker may fail in any write_assembly.

write_assembly_or_error == Build(FALSE, Outcomes)

InitDriver ==
    /\ hir_db \in {[f EXCEPT !.target = t] : f \in Files, t \in Targets}
    /\ llvm_asserts \in BOOLEAN
    /\ config \in Configs
    /\ InitContext

NextDriver ==
    \/ set_file_text(LitEdits(hir_db), "lit")
    \/ write_assembly_or_error

SpecDriver == InitDriver /\ [][NextDriver]_vars

\* the native side of the compilation context: its types and caches
NativeContext == <<struct_cache, structs, infos, types, seen>>

\* C18: a write_assembly of a driver whose target triple is unknown returns
\* the error UnknownTargetTriple with no path of an artifact and no object
\* file, and runs no IR query: the native context is as it was and no group
\* IR and no file IR was generated.
C18_UnknownTargetTriple ==
    [][(builds' = builds + 1 /\ hir_db.target # HostTarget)
          => /\ assembly'.last.error = "UnknownTargetTriple"
             /\ assembly'.last.path = <<>>
             /\ assembly'.last.temp_file = "none"
             /\ ~assembly'.written
             /\ ~group_ir'.attempted
             /\ NativeContext' = NativeContext
             /\ status' = status]_vars

\* write_assembly was called twice for an unknown target and returned the
\* error, with a text that was replaced in between
C18_Witness ==
    /\ hir_db.target # HostTarget
    /\ builds = 2
    /\ edits = 1
    /\ assembly.last.error = "UnknownTargetTriple"
    /\ types = <<>>

\* C19: when a step of the temporary object file or of the linker failed in
\* the last write_assembly, it returned an error and no path of an artifact;
\* when no step failed it returned the path; in both cases the temporary object
\* file does not exist afterwards.
C19_ErrorsLeaveNoObjectFile ==
    /\ assembly.last.temp_file # "exists"
    /\ assembly.last.failed # "none"
          => (assembly.last.error # "none" /\ assembly.last.path = <<>>)
    /\ assembly.last.path # <<>>
          => (assembly.last.error = "none" /\ assembly.last.temp_file = "removed"
              /\ assembly.written /\ assembly.build = builds)

\* the linker failed in its last step, after an assembly was written by the
\* build before: the object file of the failed build was removed
C19_Witness ==
    /\ assembly.last.failed = "finalize"
    /\ assembly.last.error = "LinkerError"
    /\ assembly.last.temp_file = "removed"
    /\ assembly.written /\ assembly.build = builds - 1

-----------------------------------------------------------------------------
\* The queries group_ir and file_ir, asked again

\* C20: when the IR of a file is queried again on the same compilation
\* context, after a query that produced the group's IR and with no text set
\* in between, the second query returns the IR of the first and computes
\* nothing: no native type or module is made, and the dispatch table and the
\* type table are the ones of the first query.
C20_SecondQueryFromCache ==
    [][(builds' = builds + 1 /\ JustBuilt /\ group_ir.built)
          => /\ types' = types
             /\ group_ir'.built
             /\ group_ir'.ir = group_ir.ir]_vars

----------------------------------------------------------------------------
\* TypeManager::type_ir under direct calls

\* A caller asks for the native type of ty with the given
\* CodeGenParams::make_marshallable
Call_type_ir(ty, make_marshallable) ==
    /\ status = "running"
    /\ \E r \in {TypeManager_type_ir(Now, hir_db, ty, make_marshallable, 0)} :
          /\ Commit(r.c)
          /\ last_call' = [fn |-> "type_ir", make_marshallable |-> make_marshallable]
                          @@ CallRecord("tm", ty, r)
    /\ UNCHANGED <<hir_db, edits, since, llvm_asserts, config, group_ir, prev_ir, assembly,
                   builds, builder, trace>>

\* What a type_info call for ty found and did: the memo before the call, the
\* TypeInfo returned, and for a struct the handle whose size was queried and
\* whether that handle had a body when it was queried
InfoRecord(ty, r) ==
    [fn |-> "type_info", s |-> ty, info |-> r.info,
     memoized |-> ty \in DOMAIN infos,
     handle |-> IF ty \in Structs /\ ty \in DOMAIN r.c.structs
                THEN r.c.structs[ty].ty ELSE 0,
     opaque |-> /\ ty \in Structs
                /\ ty \in DOMAIN r.c.structs
                /\ r.c.types[r.c.structs[ty].ty].opaque,
     fields |-> IF ty \in Structs THEN hir_db.structs[ty].fields ELSE <<>>]

\* A caller asks the TypeManager for the TypeInfo of ty
Call_type_info(ty) ==
    /\ status = "running"
    /\ \E r \in {TypeManager_type_info(Now, hir_db, ty)} :
          /\ Commit(r.c)
          /\ last_call' = InfoRecord(ty, r)
    /\ UNCHANGED <<hir_db, edits, since, llvm_asserts, config, group_ir, prev_ir, assembly,
                   builds, builder, trace>>

InitTypeIr ==
    /\ hir_db \in CacheFiles
    /\ llvm_asserts \in BOOLEAN
    /\ config = DefaultConfig
    /\ InitContext

NextTypeIr ==
    \/ set_file_text(FieldEdits(hir_db), "struct")
    \/ \E ty \in Structs \cup FundTys : \E mm \in BOOLEAN : Call_type_ir(ty, mm)
    \/ \E ty \in Structs \cup FundTys : Call_type_info(ty)

SpecTypeIr == InitTypeIr /\ [][NextTypeIr]_vars

\* C21: type_ir maps a struct of memory kind GC to a pointer to a pointer to
\* the struct's native layout whatever make_marshallable is; it maps a struct
\* of memory kind Value to the struct layout itself when make_marshallable is
\* false and to a pointer to a pointer to it when make_marshallable is true.
C21_StructArmOfTypeIr ==
    (last_call.fn = "type_ir" /\ last_call.s \in Structs) =>
        LET s == last_call.s
            layout == structs[s].ty
        IN /\ hir_db.structs[s].kind = "gc" => last_call.ret = <<"pp", layout>>
           /\ (hir_db.structs[s].kind = "value" /\ ~last_call.make_marshallable)
                 => last_call.ret = <<"st", layout>>
           /\ (hir_db.structs[s].kind = "value" /\ last_call.make_marshallable)
                 => last_call.ret = <<"pp", layout>>

C21_Witness ==
    /\ last_call.fn = "type_ir"
    /\ last_call.s = "Bar"
    /\ hir_db.structs["Bar"].kind = "value"
    /\ last_call.make_marshallable
    /\ last_call.ret = <<"pp", structs["Bar"].ty>>
    /\ edits > 0

\* C22: every native struct handle obtained from the struct layout cache has
\* its field list populated before it is handed to a caller that queries its
\* size or field offsets, on the first query of the struct as well as after a
\* shape change: type_info never queries the size of an opaque handle.
C22_NoOpaqueHandleQueried ==
    (last_call.fn = "type_info" /\ last_call.s \in Structs) => ~last_call.opaque

-----------------------------------------------------------------------------
\* The globals of the group in the file's module. The history of SpecFile
\* holds, between the signatures and the bodies, the globals that
\* file::ir_query declared.

RECURSIVE ContainsAllocation(_)

\* the expression or one of its children calls a struct or is a record literal
ContainsAllocation(expr) ==
    \/ expr.kind \in {"call_struct", "record_lit"}
    \/ \E i \in DOMAIN expr.args : ContainsAllocation(expr.args[i])

\* some non-extern function of the text allocates a struct
Allocates(db) ==
    \E f \in DOMAIN db.fns : ~db.fns[f].extern /\ ContainsAllocation(db.fns[f].body)

-----------------------------------------------------------------------------
\* C24: the optimization level given in the driver's Config is the level
\* used by the per-function pass manager and by the whole-module optimization
\* of every build run by that driver.
C24_ConfiguredOptimizationLevel ==
    assembly.written =>
        /\ assembly.fn_pass_manager = config.optimization_lvl
        /\ assembly.optimize_module = config.optimization_lvl

-----------------------------------------------------------------------------
\* The indices of a built type table

\* the TypeInfos of the table, by name
Indexed == DOMAIN TT.type_info_to_index

\* the number of TypeInfos of the table that come before the one named name
\* in the order of TypeInfo
RankIn(names, name) == Cardinality({n \in names : GuidRank(n) < GuidRank(name)})

\* the pointers that the table's global is initialized with
TypeInfoPtrs == IF TT.table_globals = <<>> THEN <<>> ELSE TT.table_globals[1].initializer

\* C25: in every built type table with n TypeInfos, type_info_to_index is a
\* bijection onto 0..n-1 that gives each TypeInfo its rank in the order of
\* TypeInfo, the entry at index i is the pointer to the descriptor of the
\* TypeInfo with index i, and num_types() is n.
C25_TypeTableIndices ==
    (group_ir.attempted /\ group_ir.built) =>
        LET n == Cardinality(Indexed)
        IN /\ {TT.type_info_to_index[name] : name \in Indexed} = 0..(n - 1)
           /\ \A name \in Indexed : TT.type_info_to_index[name] = RankIn(Indexed, name)
           /\ Len(TypeInfoPtrs) = n
           /\ \A name \in Indexed :
                 TypeInfoPtrs[TT.type_info_to_index[name] + 1] = <<"global", name>>
           /\ \A i \in 1..n : TT.type_info_to_index[TT.entries[i].name] = i - 1
           /\ num_types(TT) = n

\* a table of four TypeInfos was built, and Args, collected first, comes
\* behind core::i32, collected after it
C25_Witness ==
    /\ group_ir.attempted /\ group_ir.built
    /\ Cardinality(Indexed) >= 4
    /\ {"Args", "core::i32", "Bar"} \subseteq Indexed
    /\ TT.type_info_to_index["core::i32"] = 0
    /\ TT.type_info_to_index["Args"] > TT.type_info_to_index["core::i32"]

-----------------------------------------------------------------------------
\* the descriptor globals that gen_type_info made for the TypeInfo named name
\* during the build of the table
DescriptorsOf(name) == {i \in 1..Len(TT.globals) : TT.globals[i] = name}

\* C26: during one build of the type table over acyclic struct definitions
\* gen_type_info makes at most one descriptor global for each distinct
\* TypeInfo, whether the TypeInfo is met as an entry of the table, as the type
\* of a field, or both.
C26_OneDescriptorPerTypeInfo ==
    (group_ir.attempted /\ group_ir.built) =>
        \A name \in Range(TT.globals) : Cardinality(DescriptorsOf(name)) = 1

\* Bar is the type of a field of Args, whose descriptor is made before the
\* entry of Bar is reached, and an entry of the table
C26_Witness ==
    /\ group_ir.attempted /\ group_ir.built
    /\ {"Args", "Bar"} \subseteq Indexed
    /\ "Bar" \in Range(group_ir.db.structs["Args"].fields)
    /\ TT.type_info_to_index["Args"] < TT.type_info_to_index["Bar"]
    /\ \E i \in DescriptorsOf("Bar") : \E j \in DescriptorsOf("Args") : i < j

-----------------------------------------------------------------------------
\* the entries of the builder's table whose origin is the function f
EntriesOf(f) == {i \in 1..Len(builder.t.entries) : builder.t.entries[i].hir = f}

\* C27: after any sequence of collect_body calls and in the built table,
\* every index in function_to_idx and in prototype_to_idx is below the number
\* of entries, the entry at the index of a function f has f as its origin,
\* the entry at the index of a prototype p has the prototype p, and no user
\* function is the origin of two entries.
C27_DispatchTableIndices ==
    builder.made =>
        LET t == builder.t
            n == Len(t.entries)
        IN /\ \A f \in DOMAIN t.function_to_idx :
                 /\ t.function_to_idx[f] \in 0..(n - 1)
                 /\ t.entries[t.function_to_idx[f] + 1].hir = f
           /\ \A p \in DOMAIN t.prototype_to_idx :
                 /\ t.prototype_to_idx[p] \in 0..(n - 1)
                 /\ t.entries[t.prototype_to_idx[p] + 1].prototype = p
           /\ \A f \in DOMAIN hir_db.fns : Cardinality(EntriesOf(f)) <= 1

\* a built table behind an intrinsic, in which twice, called two times by
\* main and collected again with the body of another function, has one entry
C27_Witness ==
    /\ builder.made /\ builder.built
    /\ builder.intrinsics # {}
    /\ Cardinality({i \in 1..Len(trace) : trace[i] = "twice"}) >= 2
    /\ Cardinality(EntriesOf("twice")) = 1
    /\ Cardinality(DOMAIN builder.t.function_to_idx) >= 3

-----------------------------------------------------------------------------
\* C28: a built DispatchTable has a global, and ty() is Some, exactly when it
\* has at least one entry; so whenever the table has an entry for a function
\* or a prototype, the file's dispatchTable global declared from ty() exists
\* and a lookup of that entry does not fail for want of a dispatch table.
C28_GlobalIffEntries ==
    (builder.made /\ builder.built) =>
        /\ global_value(builder.t) <=> Len(builder.t.entries) >= 1
        /\ DispatchTable_ty(builder.t) # <<>> <=> Len(builder.t.entries) >= 1
        /\ (DOMAIN builder.t.function_to_idx # {} \/ DOMAIN builder.t.prototype_to_idx # {})
              => DispatchTable_ty(builder.t) # <<>>

\* a table built without intrinsics got its global from the first call that
\* a collected body makes
C28_Witness ==
    /\ builder.made /\ builder.built
    /\ builder.intrinsics = {}
    /\ Len(builder.t.entries) >= 1
    /\ DispatchTable_ty(builder.t) # <<>>
    /\ global_value(builder.t)

-----------------------------------------------------------------------------
\* the structs that a cache was asked for, and its entries
Queried_structs(which) == DOMAIN seen[which]

CacheOf(which) == IF which = "ctx" THEN struct_cache ELSE structs

\* C29: each struct layout cache holds exactly one (field list, handle) pair
\* for every struct it was ever asked for, the pair of the last query, and a
\* handle that was replaced is never returned again: a call returns the
\* handle of the entry as the call before left it, or a handle that did not
\* exist before the call; after the changes A to B and back to A the third
\* handle is a fresh one.
C29_ReplacedHandleNeverReturned ==
    /\ \A which \in {"ctx", "tm"} :
          /\ DOMAIN CacheOf(which) = Queried_structs(which)
          /\ \A s \in Queried_structs(which) :
                /\ CacheOf(which)[s].ty = seen[which][s].ty
                /\ types[CacheOf(which)[s].ty].name = s
    /\ \A s \in DOMAIN struct_cache : struct_cache[s].fields = seen["ctx"][s].fields
    /\ last_call.fn \in {"ctx", "tm"} =>
          /\ last_call.ret > last_call.base \/ (last_call.had /\ last_call.ret = last_call.prev)
          /\ (last_call.had /\ ~last_call.unchanged) => last_call.ret > last_call.base
          /\ CacheOf(last_call.fn)[last_call.s].ty = last_call.ret

\* Bar was asked for with the field list f64, then i32, then f64 again, of
\* the cache of the compilation context alone: the third handle is new
C29_Witness ==
    /\ last_call.fn = "ctx" /\ last_call.s = "Bar"
    /\ edits = 2
    /\ structs = EmptyMap
    /\ hir_db.structs["Bar"].fields = <<"f64">>
    /\ hir_db.structs["Args"].fields = <<"i32", "Bar">>
    /\ last_call.had /\ ~last_call.unchanged
    /\ Cardinality({h \in 1..Len(types) : types[h].name = "Bar"}) = 3
    /\ last_call.ret = Len(types)
    /\ DOMAIN struct_cache = {"Bar"}

-----------------------------------------------------------------------------
\* The layout that the struct s of the text has when its native type has
\* the native types of its fields as body: an i32 takes 4 bytes, an f64 and a
\* reference to a GC struct 8, a value struct the bytes of its own layout

RECURSIVE LayoutOfText(_, _)
RECURSIVE LayoutOfFields(_, _, _, _)

LayoutOfFields(db, tys, i, acc) ==
    IF i > Len(tys) THEN [acc EXCEPT !.size = AlignUp(@, acc.align)]
    ELSE LET e == IF tys[i] = "i32" THEN [size |-> 4, align |-> 4]
                  ELSE IF tys[i] = "f64" THEN [size |-> 8, align |-> 8]
                  ELSE IF db.structs[tys[i]].kind = "gc" THEN [size |-> 8, align |-> 8]
                  ELSE LayoutOfText(db, tys[i])
         IN LayoutOfFields(db, tys, i + 1,
                           [size |-> AlignUp(acc.size, e.align) + e.size,
                            align |-> Max(acc.align, e.align)])

LayoutOfText(db, s) == LayoutOfFields(db, db.structs[s].fields, 1, [size |-> 0, align |-> 1])

\* C30: TypeManager::type_info memoizes fundamental types only, and inserts a
\* TypeInfo only for a type that has none; for a struct the TypeInfo is
\* computed anew by every call, so that it carries the size and the alignment
\* of the layout that the struct has at the call, also after a shape change.
C30_TypeInfoOfCurrentLayout ==
    /\ DOMAIN infos \subseteq FundTys
    /\ status # "panic"
    /\ last_call.fn = "type_info" =>
          /\ (last_call.s \in FundTys /\ last_call.memoized) => infos[last_call.s] = last_call.info
          /\ (last_call.s \in FundTys /\ ~last_call.memoized)
                => (last_call.s \in DOMAIN infos /\ infos[last_call.s] = last_call.info)
          /\ last_call.s \in Structs =>
                /\ last_call.info.name = last_call.s
                /\ last_call.info.bits = 8 * LayoutOfText(hir_db, last_call.s).size
                /\ last_call.info.align = LayoutOfText(hir_db, last_call.s).align

====
